---- MODULE Spec2Model ----
(***************************************************************************)
(* Risk-and-execution core of the paper-trading platform: RiskManager,     *)
(* TradingEngine, the persistence operations they use, and the decision    *)
(* cycle of AutonomyLoop.                                                  *)
(*                                                                         *)
(* Units.  JavaScript numbers are modelled as exact scaled integers:       *)
(*   prices      in ticks          (1 tick = 0.00001, i.e. toFixed(5))     *)
(*   money       in cents          (0.01, i.e. toFixed(2))                 *)
(*   quantities  in hundredths     (0.01, i.e. Math.round(q * 100) / 100)  *)
(*   percentages in hundredths of a percent                                *)
(*   time        in clock units of MinutesPerUnit minutes                  *)
(* Products that exceed TLC's 32-bit integers are formed with            *)
(* MulDivRem, which is exact.  Rounding of an exact half goes away from    *)
(* zero (toFixed on the exact decimal value).                              *)
(***************************************************************************)
EXTENDS Integers, Sequences, FiniteSets, TLC

VARIABLES
    balance,          \* users.balance of user 1, cents
    positions,        \* rows of table positions (set of records)
    trades,           \* rows of table trades, in insertion order
    botStatus,        \* row 1 of bot_status: trades_today, last_trade_at
    nextPositionId,   \* AUTOINCREMENT sequence of positions.id
    now,              \* wall clock, clock units
    isRunning,        \* AutonomyLoop.isRunning
    tasks,            \* runCycle executions in flight, suspended at an await
    thrown,           \* number of exceptions thrown out of TradingEngine calls
    lastCall,         \* the last TradingEngine / executeDecision call and its result
    call,             \* the last RiskManager call of RiskSpec and its result
    limiter,          \* one RateLimiter instance, its callers and its clock
    resilience,       \* the circuit breakers and the calls of callWithResilience
    analysis,         \* GeminiService, one runCycle over it and the decision log
    transaction,      \* one Transaction object and the connection's transaction
    http,             \* requestStore of the HTTP rate limiter for one key
    marketData        \* MarketDataService: cache, pendingRequests and callers of one quote

vars == <<balance, positions, trades, botStatus, nextPositionId, now,
          isRunning, tasks, thrown, lastCall, call, limiter, resilience, analysis, transaction, http, marketData>>

\* JavaScript null / SQL NULL in a numeric column; NONE in a text column.
NULL == -999999999

NONE == "none"

----------------------------------------------------------------------------
(* Configuration (config.js, schema.sql)                                   *)

InitialBalance == 1000000
MaxRiskPerTradeBps == 200
MaxTradesPerDay == 3
StopLossPermille == 25
TakeProfitPermille == 50
StopLossPips == 35
TakeProfitPips == 70
PipValue == 10
MinimumBalance == 10000
CooldownMinutes == 15
MinutesPerUnit == CooldownMinutes
CooldownUnits == CooldownMinutes \div MinutesPerUnit
PositionValueCapPercent == 95

----------------------------------------------------------------------------
(* Number arithmetic                                                       *)

Abs(x) == IF x < 0 THEN -x ELSE x

Sign(x) == IF x < 0 THEN -1 ELSE 1

\* a * b = q * c + r with 0 <= r < c, for a, b >= 0 and c > 0, computed by
\* halving b so that no intermediate value leaves the 32-bit range.
RECURSIVE MulDivRem(_, _, _)
MulDivRem(a, b, c) ==
    IF b = 0 THEN <<0, 0>>
    ELSE IF a <= 2147483647 \div b THEN <<(a * b) \div c, (a * b) % c>>
    ELSE LET h == MulDivRem(a, b \div 2, c)
             s == 2 * h[2] + (b % 2) * (a % c)
         IN  <<2 * h[1] + (b % 2) * (a \div c) + (s \div c), s % c>>

\* Math.floor(a * b / c) for b >= 0, c > 0 and any sign of a.
FloorMulDiv(a, b, c) ==
    LET qr == MulDivRem(Abs(a), b, c)
    IN  IF a >= 0 THEN qr[1]
        ELSE -(qr[1] + (IF qr[2] > 0 THEN 1 ELSE 0))

\* a * b / c rounded to the nearest integer, an exact half away from zero:
\* parseFloat((a * b / c).toFixed(n)) in scaled units.  b >= 0, c > 0.
RoundMulDiv(a, b, c) ==
    LET qr == MulDivRem(Abs(a), b, c)
    IN  Sign(a) * (qr[1] + (IF 2 * qr[2] >= c THEN 1 ELSE 0))

\* Math.round(a * b / c): an exact half goes towards +Infinity.
MathRoundMulDiv(a, b, c) ==
    LET qr == MulDivRem(Abs(a), b, c)
    IN  IF a >= 0 THEN qr[1] + (IF 2 * qr[2] >= c THEN 1 ELSE 0)
        ELSE -(qr[1] + (IF 2 * qr[2] > c THEN 1 ELSE 0))

\* a1 * b1 > a2 * b2 for b1, b2 >= 0 and any sign of a1, a2, compared as
\* exact products.
MagGreater(a1, b1, a2, b2) ==
    LET x == MulDivRem(a1, b1, 100000)
        y == MulDivRem(a2, b2, 100000)
    IN  x[1] > y[1] \/ (x[1] = y[1] /\ x[2] > y[2])

ProductGreater(a1, b1, a2, b2) ==
    CASE a1 >= 0 /\ a2 >= 0 -> MagGreater(a1, b1, a2, b2)
      [] a1 >= 0 /\ a2 < 0  -> ~(a1 * b1 = 0 /\ b2 = 0)
      [] a1 < 0 /\ a2 >= 0  -> FALSE
      [] OTHER               -> MagGreater(-a2, b2, -a1, b1)

\* Number(x): null coerces to 0 in arithmetic.
Num(x) == IF x = NULL THEN 0 ELSE x

----------------------------------------------------------------------------
(* RiskManager (riskManager.js)                                            *)

CalculateStopLevels(entryPrice, side, marketType) ==
    LET e == Num(entryPrice)
        stopLoss ==
            IF marketType = "stock"
            THEN IF side = "long"
                 THEN RoundMulDiv(e, 1000 - StopLossPermille, 1000)
                 ELSE RoundMulDiv(e, 1000 + StopLossPermille, 1000)
            ELSE IF side = "long"
                 THEN e - StopLossPips * PipValue
                 ELSE e + StopLossPips * PipValue
        takeProfit ==
            IF marketType = "stock"
            THEN IF side = "long"
                 THEN RoundMulDiv(e, 1000 + TakeProfitPermille, 1000)
                 ELSE RoundMulDiv(e, 1000 - TakeProfitPermille, 1000)
            ELSE IF side = "long"
                 THEN e + TakeProfitPips * PipValue
                 ELSE e - TakeProfitPips * PipValue
    IN  [stopLoss |-> stopLoss,
         takeProfit |-> takeProfit,
         riskRewardRatio |->
            IF marketType = "stock"
            THEN (100 * TakeProfitPermille) \div StopLossPermille
            ELSE (100 * TakeProfitPips) \div StopLossPips]

\* quantity * entryPrice as <<cents, remainder in 1/100000 cent>>, both with
\* the sign of quantity.
PositionValue(quantity, entryPrice) ==
    LET m == MulDivRem(Abs(quantity), entryPrice, 100000)
    IN  <<Sign(quantity) * m[1], Sign(quantity) * m[2]>>

\* calculatePositionSize without the re-floor to 95% of the balance.
CalculatePositionSizeNoCap(bal, entryPrice, stopLossPrice, marketType) ==
    LET e == Num(entryPrice)
        riskAmount == bal * MaxRiskPerTradeBps
        riskPerUnit == Abs(e - stopLossPrice)
        quantity == IF marketType = "stock"
                    THEN 100 * FloorMulDiv(bal, MaxRiskPerTradeBps \div 10, riskPerUnit)
                    ELSE MathRoundMulDiv(bal, MaxRiskPerTradeBps * 10, riskPerUnit)
    IN  IF riskPerUnit = 0
        THEN [quantity |-> 0, riskAmount |-> 0,
              positionValue |-> <<>>, error |-> "Invalid stop loss"]
        ELSE [quantity |-> quantity, riskAmount |-> riskAmount,
              positionValue |-> PositionValue(quantity, e),
              error |-> NONE]

\* quantity in hundredths; riskAmount in 1/10000 cent; positionValue as
\* PositionValue gives it, <<>> where the result has no such field.
\* entryPrice > 0 or null, and balance >= 0 when it is null.
CalculatePositionSize(bal, entryPrice, stopLossPrice, marketType) ==
    LET e == Num(entryPrice)
        riskAmount == bal * MaxRiskPerTradeBps
        riskPerUnit == Abs(e - stopLossPrice)
        sized == IF marketType = "stock"
                 THEN 100 * FloorMulDiv(bal, MaxRiskPerTradeBps \div 10, riskPerUnit)
                 ELSE MathRoundMulDiv(bal, MaxRiskPerTradeBps * 10, riskPerUnit)
        quantity ==
            IF ProductGreater(sized, e, bal, PositionValueCapPercent * 1000)
            THEN 100 * FloorMulDiv(bal, PositionValueCapPercent * 10, e)
            ELSE sized
    IN  IF riskPerUnit = 0
        THEN [quantity |-> 0, riskAmount |-> 0,
              positionValue |-> <<>>, error |-> "Invalid stop loss"]
        ELSE [quantity |-> quantity, riskAmount |-> riskAmount,
              positionValue |-> PositionValue(quantity, e),
              error |-> NONE]

\* shouldClosePosition with strict comparisons: a price exactly at a level
\* does not trigger.
ShouldClosePositionStrict(position, currentPrice) ==
    LET stopHit == IF position.side = "long"
                   THEN currentPrice < position.stop_loss
                   ELSE currentPrice > position.stop_loss
        takeHit == IF position.side = "long"
                   THEN currentPrice > position.take_profit
                   ELSE currentPrice < position.take_profit
    IN  IF stopHit
        THEN [shouldClose |-> TRUE, reason |-> "STOP_LOSS_HIT",
              exitPrice |-> position.stop_loss]
        ELSE IF takeHit
        THEN [shouldClose |-> TRUE, reason |-> "TAKE_PROFIT_HIT",
              exitPrice |-> position.take_profit]
        ELSE [shouldClose |-> FALSE, reason |-> NONE, exitPrice |-> NULL]

ShouldClosePosition(position, currentPrice) ==
    IF position.side = "long"
    THEN IF currentPrice <= position.stop_loss
         THEN [shouldClose |-> TRUE, reason |-> "STOP_LOSS_HIT",
               exitPrice |-> position.stop_loss]
         ELSE IF currentPrice >= position.take_profit
         THEN [shouldClose |-> TRUE, reason |-> "TAKE_PROFIT_HIT",
               exitPrice |-> position.take_profit]
         ELSE [shouldClose |-> FALSE, reason |-> NONE, exitPrice |-> NULL]
    ELSE IF currentPrice >= position.stop_loss
         THEN [shouldClose |-> TRUE, reason |-> "STOP_LOSS_HIT",
               exitPrice |-> position.stop_loss]
         ELSE IF currentPrice <= position.take_profit
         THEN [shouldClose |-> TRUE, reason |-> "TAKE_PROFIT_HIT",
               exitPrice |-> position.take_profit]
         ELSE [shouldClose |-> FALSE, reason |-> NONE, exitPrice |-> NULL]

\* calculateProfitLoss taking every position for a long one.
CalculateProfitLossLongOnly(entryPrice, exitPrice, quantity, side) ==
    [profitLoss |-> RoundMulDiv(Num(exitPrice) - entryPrice, quantity, 100000),
     profitLossPercent |-> RoundMulDiv(Num(exitPrice) - entryPrice, 10000, entryPrice)]

\* profitLoss in cents, profitLossPercent in hundredths of a percent.
\* A null exitPrice is 0 in the arithmetic.  entryPrice > 0.
CalculateProfitLoss(entryPrice, exitPrice, quantity, side) ==
    LET d == IF side = "long" THEN Num(exitPrice) - entryPrice
                              ELSE entryPrice - Num(exitPrice)
        dir == IF side = "long" THEN 1 ELSE -1
    IN  [profitLoss |-> RoundMulDiv(d, quantity, 100000),
         profitLossPercent |->
             dir * RoundMulDiv(Num(exitPrice) - entryPrice, 10000, entryPrice)]

\* tradeDb.getAll(1, 1)[0]: a row with the greatest closed_at (ORDER BY
\* closed_at DESC LIMIT 1 leaves the choice among equal timestamps open).
\* The result is {} for undefined, else a one-row set.
LatestTrade(trs) ==
    IF trs = <<>> THEN {{}}
    ELSE {{trs[i]} : i \in {j \in DOMAIN trs :
                              \A k \in DOMAIN trs : trs[k].closed_at <= trs[j].closed_at}}

\* positionDb.getBySymbol(symbol): {} for undefined, else a one-row set.
GetBySymbol(db, symbol) ==
    IF \E p \in db.positions : p.symbol = symbol
    THEN {{p} : p \in {q \in db.positions : q.symbol = symbol}}
    ELSE {{}}

\* canOpenTrade returning at the first failed rule.
CanOpenTradeShortCircuit(db, symbol, marketType, bal, existingPosition, lastTrade, t) ==
    LET check1 == [rule |-> "MAX_TRADES_PER_DAY",
                   passed |-> ~(db.botStatus.trades_today >= MaxTradesPerDay)]
        check2 == [rule |-> "NO_DUPLICATE_POSITION",
                   passed |-> existingPosition = {}]
        check3 == [rule |-> "MINIMUM_BALANCE",
                   passed |-> ~(bal < MinimumBalance)]
    IN  IF ~check1.passed THEN [allowed |-> FALSE, checks |-> <<check1>>]
        ELSE IF ~check2.passed THEN [allowed |-> FALSE, checks |-> <<check1, check2>>]
        ELSE [allowed |-> check3.passed, checks |-> <<check1, check2, check3>>]

\* canOpenTrade whose duplicate rule trusts the caller and always passes.
CanOpenTradeNoDuplicateRule(db, symbol, marketType, bal, existingPosition, lastTrade, t) ==
    LET check1 == [rule |-> "MAX_TRADES_PER_DAY",
                   passed |-> ~(db.botStatus.trades_today >= MaxTradesPerDay)]
        check2 == [rule |-> "NO_DUPLICATE_POSITION", passed |-> TRUE]
        check3 == [rule |-> "MINIMUM_BALANCE",
                   passed |-> ~(bal < MinimumBalance)]
    IN  [allowed |-> check1.passed /\ check3.passed,
         checks |-> <<check1, check2, check3>>]

\* existingPosition and lastTrade are the rows the two reads returned.
\* canOpenTrade whose daily-maximum check always passes.
CanOpenTradeNoDailyCap(db, symbol, marketType, bal, existingPosition, lastTrade, t) ==
    LET check1 == [rule |-> "MAX_TRADES_PER_DAY", passed |-> TRUE]
        check2 == [rule |-> "NO_DUPLICATE_POSITION",
                   passed |-> existingPosition = {}]
        check3 == [rule |-> "MINIMUM_BALANCE",
                   passed |-> ~(bal < MinimumBalance)]
        checks == <<check1, check2, check3>>
    IN  [allowed |-> \A i \in DOMAIN checks : checks[i].passed,
         checks |-> checks]

CanOpenTrade(db, symbol, marketType, bal, existingPosition, lastTrade, t) ==
    LET check1 == [rule |-> "MAX_TRADES_PER_DAY",
                   passed |-> ~(db.botStatus.trades_today >= MaxTradesPerDay)]
        check2 == [rule |-> "NO_DUPLICATE_POSITION",
                   passed |-> existingPosition = {}]
        check3 == [rule |-> "MINIMUM_BALANCE",
                   passed |-> ~(bal < MinimumBalance)]
        cooldown ==
            IF db.botStatus.last_trade_at # NULL
               /\ \E lt \in lastTrade :
                     lt.profit_loss < 0
                     /\ (t - db.botStatus.last_trade_at) < CooldownUnits
            THEN <<[rule |-> "LOSS_COOLDOWN", passed |-> FALSE]>>
            ELSE <<>>
        checks == <<check1, check2, check3>> \o cooldown
    IN  [allowed |-> \A i \in DOMAIN checks : checks[i].passed,
         checks |-> checks]

----------------------------------------------------------------------------
(* Persistence operations (database.js, schema.sql)                        *)

UserDbUpdateBalance(db, newBalance) ==
    [db EXCEPT !.balance = newBalance]

\* INSERT INTO positions without AUTOINCREMENT: the id is one more than the
\* largest id still in the table, so the id of a deleted row comes back.
PositionDbCreateReuseRowid(db, position, t) ==
    LET ids == {p.id : p \in db.positions}
        id == IF ids = {} THEN 1 ELSE 1 + CHOOSE m \in ids : \A n \in ids : n <= m
    IN  [db EXCEPT !.positions = @ \cup {[id |-> id,
                                          symbol |-> position.symbol,
                                          market_type |-> position.marketType,
                                          side |-> position.side,
                                          entry_price |-> position.entryPrice,
                                          quantity |-> position.quantity,
                                          stop_loss |-> position.stopLoss,
                                          take_profit |-> position.takeProfit,
                                          opened_at |-> t]},
                    !.nextPositionId = @ + 1]

\* INSERT INTO positions: id from the AUTOINCREMENT sequence, opened_at
\* DEFAULT CURRENT_TIMESTAMP.
PositionDbCreate(db, position, t) ==
    [db EXCEPT !.positions = @ \cup {[id |-> db.nextPositionId,
                                      symbol |-> position.symbol,
                                      market_type |-> position.marketType,
                                      side |-> position.side,
                                      entry_price |-> position.entryPrice,
                                      quantity |-> position.quantity,
                                      stop_loss |-> position.stopLoss,
                                      take_profit |-> position.takeProfit,
                                      opened_at |-> t]},
                !.nextPositionId = @ + 1]

\* DELETE FROM positions without its WHERE clause.
PositionDbDeleteAll(db, id) ==
    [db EXCEPT !.positions = {}]

\* DELETE FROM positions matching no row.
PositionDbDeleteNone(db, id) ==
    db

PositionDbDelete(db, id) ==
    [db EXCEPT !.positions = {p \in @ : p.id # id}]

\* INSERT INTO trades: exit_price REAL NOT NULL makes the statement throw
\* for a null exit price; closed_at DEFAULT CURRENT_TIMESTAMP.
TradeDbCreate(db, trade, t) ==
    IF trade.exitPrice = NULL
    THEN [db |-> db, threw |-> TRUE]
    ELSE [db |-> [db EXCEPT !.trades = Append(@,
                     [symbol |-> trade.symbol,
                      market_type |-> trade.marketType,
                      side |-> trade.side,
                      entry_price |-> trade.entryPrice,
                      exit_price |-> trade.exitPrice,
                      quantity |-> trade.quantity,
                      profit_loss |-> trade.profitLoss,
                      profit_loss_percent |-> trade.profitLossPercent,
                      entry_reason |-> trade.entryReason,
                      exit_reason |-> trade.exitReason,
                      opened_at |-> trade.openedAt,
                      closed_at |-> t])],
          threw |-> FALSE]

BotDbIncrementTrades(db, t) ==
    [db EXCEPT !.botStatus = [trades_today |-> @.trades_today + 1,
                              last_trade_at |-> t]]

\* UPDATE bot_status SET trades_today = 0
BotDbResetDailyTrades(db) ==
    [db EXCEPT !.botStatus.trades_today = 0]

\* positionDb.getAll(): ORDER BY opened_at DESC, rows at the same timestamp
\* in rowid order.
RECURSIVE PositionDbGetAll(_)
PositionDbGetAll(ps) ==
    IF ps = {} THEN <<>>
    ELSE LET first == CHOOSE p \in ps :
                        \A q \in ps : \/ q.opened_at < p.opened_at
                                      \/ (q.opened_at = p.opened_at /\ q.id >= p.id)
         IN  <<first>> \o PositionDbGetAll(ps \ {first})

----------------------------------------------------------------------------
(* TradingEngine (tradingEngine.test.js, lines 131-320)                    *)

\* openPosition paying for the position out of the balance.
OpenPositionDeductsBalance(db, symbol, marketType, side, entryPrice, t) ==
    LET levels == CalculateStopLevels(entryPrice, side, marketType)
        size == CalculatePositionSize(db.balance, entryPrice, levels.stopLoss, marketType)
        created == PositionDbCreate(db, [symbol |-> symbol,
                                         marketType |-> marketType,
                                         side |-> side,
                                         entryPrice |-> entryPrice,
                                         quantity |-> size.quantity,
                                         stopLoss |-> levels.stopLoss,
                                         takeProfit |-> levels.takeProfit], t)
        paid == UserDbUpdateBalance(created, db.balance - size.positionValue[1])
    IN  IF size.quantity <= 0
        THEN [db |-> db, success |-> FALSE, threw |-> FALSE,
              error |-> "Position size too small or insufficient balance",
              id |-> NULL]
        ELSE [db |-> BotDbIncrementTrades(paid, t),
              success |-> TRUE, threw |-> FALSE, error |-> NONE,
              id |-> db.nextPositionId]

\* openPosition rejecting a negative size only.
OpenPositionRejectsNegativeOnly(db, symbol, marketType, side, entryPrice, t) ==
    LET levels == CalculateStopLevels(entryPrice, side, marketType)
        size == CalculatePositionSize(db.balance, entryPrice, levels.stopLoss, marketType)
        created == PositionDbCreate(db, [symbol |-> symbol,
                                         marketType |-> marketType,
                                         side |-> side,
                                         entryPrice |-> entryPrice,
                                         quantity |-> size.quantity,
                                         stopLoss |-> levels.stopLoss,
                                         takeProfit |-> levels.takeProfit], t)
    IN  IF size.quantity < 0
        THEN [db |-> db, success |-> FALSE, threw |-> FALSE,
              error |-> "Position size too small or insufficient balance",
              id |-> NULL]
        ELSE [db |-> BotDbIncrementTrades(created, t),
              success |-> TRUE, threw |-> FALSE, error |-> NONE,
              id |-> db.nextPositionId]

\* The positions table refuses the row: NOT NULL and CHECK constraints.
PositionConstraintFails(position) ==
    \/ position.marketType \notin {"stock", "forex"}
    \/ position.side \notin {"long", "short"}
    \/ position.entryPrice = NULL

\* When positionDb.create throws, openPosition throws with nothing written.
OpenPosition(db, symbol, marketType, side, entryPrice, t) ==
    LET levels == CalculateStopLevels(entryPrice, side, marketType)
        size == CalculatePositionSize(db.balance, entryPrice, levels.stopLoss, marketType)
        created == PositionDbCreate(db, [symbol |-> symbol,
                                         marketType |-> marketType,
                                         side |-> side,
                                         entryPrice |-> entryPrice,
                                         quantity |-> size.quantity,
                                         stopLoss |-> levels.stopLoss,
                                         takeProfit |-> levels.takeProfit], t)
    IN  IF size.quantity <= 0
        THEN [db |-> db, success |-> FALSE, threw |-> FALSE,
              error |-> "Position size too small or insufficient balance",
              id |-> NULL]
        ELSE IF PositionConstraintFails([marketType |-> marketType, side |-> side,
                                         entryPrice |-> entryPrice])
        THEN [db |-> db, success |-> FALSE, threw |-> TRUE,
              error |-> "SqliteError", id |-> NULL]
        ELSE [db |-> BotDbIncrementTrades(created, t),
              success |-> TRUE, threw |-> FALSE, error |-> NONE,
              id |-> db.nextPositionId]

ClosePosition(db, positionId, exitPrice, reason, t) ==
    IF ~\E p \in db.positions : p.id = positionId
    THEN [db |-> db, success |-> FALSE, threw |-> FALSE,
          error |-> "Position not found", profitLoss |-> NULL]
    ELSE LET position == CHOOSE p \in db.positions : p.id = positionId
             pl == CalculateProfitLoss(position.entry_price, exitPrice,
                                       position.quantity, position.side)
             newBalance == db.balance + pl.profitLoss
             credited == UserDbUpdateBalance(db, newBalance)
             recorded == TradeDbCreate(credited,
                            [symbol |-> position.symbol,
                             marketType |-> position.market_type,
                             side |-> position.side,
                             entryPrice |-> position.entry_price,
                             exitPrice |-> exitPrice,
                             quantity |-> position.quantity,
                             profitLoss |-> pl.profitLoss,
                             profitLossPercent |-> pl.profitLossPercent,
                             entryReason |-> "AI recommendation",
                             exitReason |-> reason,
                             openedAt |-> position.opened_at], t)
         IN  IF recorded.threw
             THEN [db |-> recorded.db, success |-> FALSE, threw |-> TRUE,
                   error |-> "SqliteError", profitLoss |-> pl.profitLoss]
             ELSE [db |-> PositionDbDelete(recorded.db, positionId),
                   success |-> TRUE, threw |-> FALSE, error |-> NONE,
                   profitLoss |-> pl.profitLoss]

\* !currentPrice, exitPrice || currentPrice: undefined, null and 0 are falsy.
Falsy(x) == x = NULL \/ x = 0

\* The loop of checkPositions over the rows read at its start; marketPrices
\* maps a symbol to its price, NULL when it has no entry.
RECURSIVE CheckPositionsLoop(_, _, _, _)
CheckPositionsLoop(db, rows, marketPrices, t) ==
    IF rows = <<>> THEN [db |-> db, results |-> <<>>]
    ELSE LET position == Head(rows)
             currentPrice == marketPrices[position.symbol]
             decision == ShouldClosePosition(position, currentPrice)
             closed == ClosePosition(db, position.id,
                          IF Falsy(decision.exitPrice) THEN currentPrice
                                                       ELSE decision.exitPrice,
                          decision.reason, t)
         IN  IF Falsy(currentPrice) \/ ~decision.shouldClose
             THEN CheckPositionsLoop(db, Tail(rows), marketPrices, t)
             ELSE LET rest == CheckPositionsLoop(closed.db, Tail(rows), marketPrices, t)
                  IN  [db |-> rest.db,
                       results |-> <<[success |-> closed.success,
                                      error |-> closed.error]>> \o rest.results]

CheckPositions(db, marketPrices, t) ==
    CheckPositionsLoop(db, PositionDbGetAll(db.positions), marketPrices, t)

\* resetAccount that also deletes the open positions.
ResetAccountClearsPositions(db) ==
    [UserDbUpdateBalance(db, InitialBalance) EXCEPT !.positions = {}]

ResetAccount(db) ==
    UserDbUpdateBalance(db, InitialBalance)

\* getPortfolio: the balance and position fields of its result, and the
\* trade counts of tradeDb.getStats.  totalProfitLossPercent in hundredths
\* of a percent.
GetPortfolio(db) ==
    [balance |-> db.balance,
     initialBalance |-> InitialBalance,
     totalProfitLoss |-> db.balance - InitialBalance,
     totalProfitLossPercent |->
         ((db.balance - InitialBalance) * 100) \div (InitialBalance \div 100),
     openPositions |-> PositionDbGetAll(db.positions),
     openPositionsCount |-> Cardinality(db.positions),
     totalTrades |-> Len(db.trades),
     winningTrades |-> Cardinality({i \in DOMAIN db.trades :
                                      db.trades[i].profit_loss > 0})]

----------------------------------------------------------------------------
(* AutonomyLoop                                                            *)

\* riskCheck.checks.filter(c => !c.passed): the rules of the failed checks
FailedRules(checks) ==
    LET failed == SelectSeq(checks, LAMBDA c : ~c.passed)
    IN  [i \in 1 .. Len(failed) |-> failed[i].rule]

\* existingPosition is the row runCycle read before the AI call; dbPosition
\* and lastTrade are the rows canOpenTrade reads.
ExecuteDecision(db, symbol, marketType, recommendation, currentPrice, existingPosition, bal, dbPosition, lastTrade, t) ==
    IF recommendation = "BUY" /\ existingPosition = {}
    THEN LET riskCheck == CanOpenTrade(db, symbol, marketType, bal,
                                       dbPosition, lastTrade, t)
             result == OpenPosition(db, symbol, marketType, "long", currentPrice, t)
         IN  IF ~riskCheck.allowed
             THEN [db |-> db, action |-> "BLOCKED", threw |-> FALSE,
                   message |-> FailedRules(riskCheck.checks)]
             ELSE IF result.success
             THEN [db |-> result.db, action |-> "OPENED_LONG", threw |-> FALSE, message |-> <<>>]
             ELSE [db |-> result.db, action |-> "FAILED", threw |-> FALSE, message |-> <<>>]
    ELSE IF recommendation = "SELL" /\ existingPosition # {}
    THEN LET existing == CHOOSE p \in existingPosition : TRUE
             result == ClosePosition(db, existing.id, currentPrice,
                                     "AI_SELL_SIGNAL", t)
         IN  IF result.success
             THEN [db |-> result.db, action |-> "CLOSED_POSITION", threw |-> FALSE, message |-> <<>>]
             ELSE [db |-> result.db, action |-> "FAILED", threw |-> result.threw, message |-> <<>>]
    ELSE IF existingPosition # {}
    THEN LET existing == CHOOSE p \in existingPosition : TRUE
             decision == ShouldClosePosition(existing, currentPrice)
             result == ClosePosition(db, existing.id, currentPrice,
                                     decision.reason, t)
         IN  IF decision.shouldClose
             THEN IF result.success
                  THEN [db |-> result.db, action |-> decision.reason, threw |-> FALSE, message |-> <<>>]
                  ELSE [db |-> result.db, action |-> "HOLD", threw |-> result.threw, message |-> <<>>]
             ELSE [db |-> db, action |-> "HOLD", threw |-> FALSE, message |-> <<>>]
    ELSE [db |-> db, action |-> "HOLD", threw |-> FALSE, message |-> <<>>]

----------------------------------------------------------------------------
(* Bounds and inputs                                                       *)

MaxPositions == 2
MaxTime == 1
MaxThrown == 1
MaxDayPositions == 4

\* config.stocks and config.forex, one symbol of each market family
Symbols == <<"AAPL", "EUR/USD">>

MarketTypeOf(symbol) == IF symbol = "AAPL" THEN "stock" ELSE "forex"

\* quotes the market-data collaborator returns for a symbol in a cycle
Quotes(symbol) ==
    IF symbol = "AAPL" THEN {19000000, 20000000} ELSE {110000}

\* entry prices of a direct openPosition call; at 0.00008 the stop rounds
\* to the entry price
EntryPrices(symbol) ==
    IF symbol = "AAPL" THEN {20000000, 8} ELSE {110000}

\* exit prices of a direct closePosition call, and the prices checkPositions
\* is given: at or beyond the stop and take levels of the entries above,
\* or between them
ExitPrices(symbol) ==
    IF symbol = "AAPL" THEN {19000000, 21000000} ELSE {109000}

MarketPrices(symbol) ==
    IF symbol = "AAPL" THEN {19000000, 20000000, 21000000} ELSE {109000}

SymbolSet == {Symbols[i] : i \in DOMAIN Symbols}

\* runCycle executions: the one the scheduler runs, the one POST /bot/trigger runs
Tasks == {"cron", "manual"}

----------------------------------------------------------------------------
(* RateLimiter (token bucket with a wait queue)                            *)
(*                                                                         *)
(* The limiter's clock counts clock units of windowMs / WindowUnits.  The  *)
(* token count is a fraction: refillTokens adds elapsed / windowMs *       *)
(* maxTokens, so the model holds the count in units of 1 / WindowUnits of  *)
(* a token, in which every refill is a whole number.  Callers are numbered *)
(* in the order of their acquire() calls; resolved lists them in the order *)
(* in which resolve() was called, resolvedAt the times of these calls.     *)
(* sleeping holds, for every execution of                                  *)
(* processQueue suspended at await this.sleep, the time its timer is due.  *)

\* options.maxTokens and the length of options.windowMs in clock units
MaxTokens == 2

WindowUnits == 4

MaxCallers == 4

MaxLimiterTime == 5

\* one whole token, and the bucket's capacity
OneToken == WindowUnits

FullBucket == MaxTokens * WindowUnits

\* Math.ceil((1 / this.maxTokens) * this.windowMs), in clock units
WaitUnits == (WindowUnits + MaxTokens - 1) \div MaxTokens

MathMin(a, b) == IF a <= b THEN a ELSE b

NewRateLimiter ==
    [tokens |-> FullBucket, lastRefill |-> 0, queue |-> <<>>, processing |-> FALSE,
     totalRequests |-> 0, queuedRequests |-> 0,
     sleeping |-> <<>>, resolved |-> <<>>, resolvedAt |-> <<>>, calls |-> 0,
     time |-> 0]

RefillTokensNoCap(l) ==
    LET elapsed == l.time - l.lastRefill
    IN  IF elapsed >= WindowUnits
        THEN [l EXCEPT !.tokens = FullBucket, !.lastRefill = l.time]
        ELSE [l EXCEPT !.tokens = l.tokens + elapsed * MaxTokens,
                       !.lastRefill = l.time]

RefillTokens(l) ==
    LET elapsed == l.time - l.lastRefill
    IN  IF elapsed >= WindowUnits
        THEN [l EXCEPT !.tokens = FullBucket, !.lastRefill = l.time]
        ELSE LET tokensToAdd == elapsed * MaxTokens
             IN  [l EXCEPT !.tokens = MathMin(FullBucket, l.tokens + tokensToAdd),
                           !.lastRefill = l.time]

\* The while loop of processQueue from its head, up to the next await or to
\* the end of the function.
RECURSIVE DrainLoop(_)
DrainLoop(l) ==
    IF l.queue = <<>>
    THEN [l EXCEPT !.processing = FALSE]
    ELSE LET r == RefillTokens(l)
         IN  IF r.tokens >= OneToken
             THEN DrainLoop([r EXCEPT !.queue = Tail(r.queue),
                                      !.tokens = r.tokens - OneToken,
                                      !.resolved = Append(r.resolved, Head(r.queue)),
                                      !.resolvedAt = Append(r.resolvedAt, r.time)])
             ELSE [r EXCEPT !.sleeping = Append(r.sleeping, r.time + WaitUnits)]

ProcessQueueUnguarded(l) ==
    IF l.queue = <<>> THEN l ELSE DrainLoop([l EXCEPT !.processing = TRUE])

ProcessQueue(l) ==
    IF l.processing \/ l.queue = <<>>
    THEN l
    ELSE DrainLoop([l EXCEPT !.processing = TRUE])

\* acquire(): the executor of the returned promise runs synchronously.
Acquire(l) ==
    LET caller == l.calls + 1
        c == [l EXCEPT !.totalRequests = l.totalRequests + 1, !.calls = caller]
        r == RefillTokens(c)
    IN  IF r.tokens >= OneToken
        THEN [r EXCEPT !.tokens = r.tokens - OneToken,
                       !.resolved = Append(r.resolved, caller),
                       !.resolvedAt = Append(r.resolvedAt, r.time)]
        ELSE ProcessQueue([r EXCEPT !.queuedRequests = r.queuedRequests + 1,
                                    !.queue = Append(r.queue, caller)])

\* reset(): the queue is dropped; processing and pending timers stay.
LimiterReset(l) ==
    [l EXCEPT !.tokens = FullBucket, !.lastRefill = l.time, !.queue = <<>>,
              !.totalRequests = 0, !.queuedRequests = 0]

\* s without its i-th element
RemoveAt(s, i) == SubSeq(s, 1, i - 1) \o SubSeq(s, i + 1, Len(s))

----------------------------------------------------------------------------
(* CircuitBreaker, RetryPolicy, callWithResilience                         *)
(*                                                                         *)
(* The breakers' clock counts clock units of resetTimeout /                *)
(* ResetTimeoutUnits.  A call of callWithResilience is a task suspended at *)
(* await fn() or at await this.sleep(delay); the errors fn throws are      *)
(* numbered by the invocation that threw them.                             *)

\* options.failureThreshold and options.maxRetries as the callers of this
\* model pass them, and the length of options.resetTimeout in clock units
FailureThreshold == 2

MaxRetries == 2

ResetTimeoutUnits == 2

\* this.halfOpenRequests = options.halfOpenRequests || 1
HalfOpenRequests == 1

MaxBreakerTime == 4

MaxFailureCount == 3

MaxCalls == 4

Services == {"gemini", "twelveData"}

Callers == {"a", "b"}

NewCircuitBreaker ==
    [state |-> "CLOSED", failureCount |-> 0, successCount |-> 0,
     lastFailureTime |-> NULL, nextAttemptTime |-> NULL]

\* canAttempt(): <<the breaker afterwards, the value returned>>
CanAttempt(b, t) ==
    IF b.state = "CLOSED" THEN <<b, TRUE>>
    ELSE IF b.state = "OPEN"
    THEN IF b.nextAttemptTime # NULL /\ b.nextAttemptTime # 0 /\ t >= b.nextAttemptTime
         THEN <<[b EXCEPT !.state = "HALF_OPEN", !.successCount = 0], TRUE>>
         ELSE <<b, FALSE>>
    ELSE <<b, b.successCount < HalfOpenRequests>>

\* recordSuccess that closes the breaker in every state.
RecordSuccessClosesAlways(b) ==
    [b EXCEPT !.failureCount = 0, !.state = "CLOSED"]

RecordSuccess(b) ==
    LET reset == [b EXCEPT !.failureCount = 0]
    IN  IF b.state = "HALF_OPEN"
        THEN LET counted == [reset EXCEPT !.successCount = b.successCount + 1]
             IN  IF counted.successCount >= HalfOpenRequests
                 THEN [counted EXCEPT !.state = "CLOSED"]
                 ELSE counted
        ELSE reset

RecordFailure(b, t) ==
    LET counted == [b EXCEPT !.failureCount = b.failureCount + 1,
                             !.lastFailureTime = t]
        tripped == IF counted.failureCount >= FailureThreshold
                   THEN [counted EXCEPT !.state = "OPEN",
                                        !.nextAttemptTime = t + ResetTimeoutUnits]
                   ELSE counted
    IN  IF tripped.state = "HALF_OPEN"
        THEN [tripped EXCEPT !.state = "OPEN",
                             !.nextAttemptTime = t + ResetTimeoutUnits]
        ELSE tripped

\* a resetBreaker that sets the state only
ResetBreakerStateOnly(b) == [b EXCEPT !.state = "CLOSED"]

\* CircuitBreakerRegistry.resetBreaker on a registered breaker
ResetBreaker(b) == [b EXCEPT !.state = "CLOSED", !.failureCount = 0]

\* error.code = 'CIRCUIT_BREAKER_OPEN' among the errors, those of fn being
\* numbered from 1
CIRCUIT_BREAKER_OPEN == 0

\* A task that runs no call of callWithResilience; admittedIn is the state
\* of the breaker when canAttempt() let the call through.
NoTask ==
    [pc |-> "idle", service |-> NONE, admittedIn |-> NONE, attempt |-> 0,
     invocations |-> 0, sleeps |-> 0, lastError |-> NULL, outcome |-> NONE,
     value |-> NULL]

\* circuitBreakerRegistry with a breaker per service name, the callers'
\* tasks, the clock, the number of calls begun and the last step taken.
NewResilience ==
    [breakers |-> [s \in Services |-> NewCircuitBreaker],
     tasks |-> [c \in Callers |-> NoTask],
     time |-> 0, calls |-> 0, last |-> [op |-> "none"]]

\* callWithResilience that does not ask the breaker.
CallWithResilienceNoBreaker(r, c, s) ==
    [r EXCEPT !.calls = r.calls + 1,
              !.tasks[c] = [NoTask EXCEPT !.pc = "fn", !.service = s,
                                          !.admittedIn = r.breakers[s].state,
                                          !.invocations = 1],
              !.last = [op |-> "callWithResilience", caller |-> c, service |-> s,
                        allowed |-> TRUE]]

\* callWithResilience up to its first await: the breaker is asked, and
\* RetryPolicy.execute makes its first attempt or the call fails fast.
CallWithResilience(r, c, s) ==
    LET asked == CanAttempt(r.breakers[s], r.time)
    IN  IF ~asked[2]
        THEN [r EXCEPT !.calls = r.calls + 1,
                       !.breakers[s] = asked[1],
                       !.tasks[c] = [NoTask EXCEPT !.pc = "done", !.service = s,
                                                   !.outcome = "threw",
                                                   !.value = CIRCUIT_BREAKER_OPEN],
                       !.last = [op |-> "callWithResilience", caller |-> c,
                                 service |-> s, allowed |-> FALSE]]
        ELSE [r EXCEPT !.calls = r.calls + 1,
                       !.breakers[s] = asked[1],
                       !.tasks[c] = [NoTask EXCEPT !.pc = "fn", !.service = s,
                                                   !.admittedIn = asked[1].state,
                                                   !.invocations = 1],
                       !.last = [op |-> "callWithResilience", caller |-> c,
                                 service |-> s, allowed |-> TRUE]]

\* await fn() resolves, with the number of the invocation for its value:
\* execute returns it and callWithResilience records the success.
FnResolves(r, c) ==
    LET task == r.tasks[c]
    IN  [r EXCEPT !.breakers[task.service] = RecordSuccess(r.breakers[task.service]),
                  !.tasks[c] = [task EXCEPT !.pc = "done", !.outcome = "returned",
                                            !.value = task.invocations],
                  !.last = [op |-> "fnResolves", caller |-> c,
                            service |-> task.service]]

\* await fn() rejects, in an execute that keeps the first error it caught.
FnRejectsKeepsFirstError(r, c) ==
    LET task == r.tasks[c]
        failed == [task EXCEPT !.lastError = IF task.lastError = NULL
                                              THEN task.invocations
                                              ELSE task.lastError]
    IN  IF task.attempt < MaxRetries
        THEN [r EXCEPT !.tasks[c] = [failed EXCEPT !.pc = "sleep",
                                                   !.sleeps = task.sleeps + 1],
                       !.last = [op |-> "fnRejects", caller |-> c,
                                 service |-> task.service]]
        ELSE [r EXCEPT !.breakers[task.service] =
                           RecordFailure(r.breakers[task.service], r.time),
                       !.tasks[c] = [failed EXCEPT !.pc = "done",
                                                   !.outcome = "threw",
                                                   !.value = failed.lastError],
                       !.last = [op |-> "fnRejects", caller |-> c,
                                 service |-> task.service]]

\* await fn() rejects: execute sleeps before the next attempt, or after the
\* last one throws lastError and callWithResilience records the failure.
FnRejects(r, c) ==
    LET task == r.tasks[c]
        failed == [task EXCEPT !.lastError = task.invocations]
    IN  IF task.attempt < MaxRetries
        THEN [r EXCEPT !.tasks[c] = [failed EXCEPT !.pc = "sleep",
                                                   !.sleeps = task.sleeps + 1],
                       !.last = [op |-> "fnRejects", caller |-> c,
                                 service |-> task.service]]
        ELSE [r EXCEPT !.breakers[task.service] =
                           RecordFailure(r.breakers[task.service], r.time),
                       !.tasks[c] = [failed EXCEPT !.pc = "done",
                                                   !.outcome = "threw",
                                                   !.value = failed.lastError],
                       !.last = [op |-> "fnRejects", caller |-> c,
                                 service |-> task.service]]

\* await this.sleep(delay) is over: the next attempt invokes fn.
SleepOver(r, c) ==
    LET task == r.tasks[c]
    IN  [r EXCEPT !.tasks[c] = [task EXCEPT !.pc = "fn",
                                            !.attempt = task.attempt + 1,
                                            !.invocations = task.invocations + 1],
                  !.last = [op |-> "sleepOver", caller |-> c,
                            service |-> task.service]]

----------------------------------------------------------------------------
(* GeminiService (geminiService.js) and the decision log of runCycle       *)

\* QUOTA_COOLDOWN_MS in clock units
QuotaCooldownUnits == 2
\* maxRetries of retryWithBackoff
BackoffMaxRetries == 1
MaxAnalysisTime == 3
MaxCycles == 2

\* The texts a model answers with: what follows 'RECOMMENDATION:' (trimmed,
\* in upper case; NONE when no line starts with it) and what follows
\* 'REASONING:' (a string is the tuple of its pieces, <<>> the empty string).
Responses ==
    {[recommendation |-> "BUY", reasoning |-> <<"RSI is 60">>],
     [recommendation |-> "SELL", reasoning |-> <<>>],
     [recommendation |-> NONE, reasoning |-> <<"RSI is 60">>]}

\* error.message of a rejected generateContent: quota, overload, other
ErrorKinds == {"429", "503", "500"}

ParseResponse(text) ==
    [recommendation |-> IF text.recommendation \in {"BUY", "SELL", "HOLD"}
                        THEN text.recommendation ELSE "HOLD",
     reasoning |-> IF text.reasoning = <<>>
                   THEN <<"Analysis completed based on technical indicators.">>
                   ELSE text.reasoning]

\* what getRecommendation returns while the quota cooldown lasts
PausedDecision ==
    [recommendation |-> "HOLD",
     reasoning |-> <<"AI analysis paused due to API quota limits. Using technical indicators only.">>,
     aiModel |-> "none (circuit breaker)", error |-> TRUE]

\* what getRecommendation returns when both models failed
BothFailedDecision ==
    [recommendation |-> "HOLD",
     reasoning |-> <<"AI analysis unavailable (Both models failed). Defaulting to safe HOLD.">>,
     aiModel |-> "gemini", error |-> TRUE]

NoDecision == [recommendation |-> NONE, reasoning |-> <<>>, aiModel |-> NONE, error |-> FALSE]

\* The service after its constructor, a loop that runs no cycle, an empty
\* table decisions, the clock and the last step taken.
NewAnalysis ==
    [isGeminiQuotaExceeded |-> FALSE, quotaExceededTime |-> 0,
     pc |-> "idle", idx |-> 0, cycles |-> 0,
     stage |-> NONE, retries |-> 0, modelCalls |-> 0, aiDecision |-> NoDecision,
     decisions |-> <<>>, time |-> 0, last |-> [op |-> "none"]]

\* The for loop of runCycle moves to the next symbol or ends.
NextSymbolOf(a) ==
    IF a.idx < Len(Symbols)
    THEN [a EXCEPT !.pc = "marketData", !.idx = a.idx + 1, !.stage = NONE,
                   !.retries = 0, !.modelCalls = 0, !.aiDecision = NoDecision]
    ELSE [a EXCEPT !.pc = "idle", !.idx = 0, !.stage = NONE,
                   !.retries = 0, !.modelCalls = 0, !.aiDecision = NoDecision]

\* getRecommendation up to its first await: the quota breaker is checked,
\* then generate(this.model) awaits the rate limiter.
GetRecommendation(a) ==
    IF a.isGeminiQuotaExceeded /\ a.time - a.quotaExceededTime < QuotaCooldownUnits
    THEN [a EXCEPT !.pc = "execute", !.aiDecision = PausedDecision]
    ELSE [a EXCEPT !.isGeminiQuotaExceeded = FALSE,
                   !.pc = "acquire", !.stage = "gemini-primary"]

HandleGeminiError(a, kind) ==
    IF kind = "429"
    THEN [a EXCEPT !.isGeminiQuotaExceeded = TRUE, !.quotaExceededTime = a.time]
    ELSE a

\* generateContent resolves and its text is parsed: generate returns.
GenerateResolves(a, text) ==
    [a EXCEPT !.pc = "execute",
              !.aiDecision = [recommendation |-> ParseResponse(text).recommendation,
                              reasoning |-> <<"[Model: ", a.stage, "] ">>
                                              \o ParseResponse(text).reasoning,
                              aiModel |-> "gemini", error |-> FALSE]]

\* generateContent rejects, in a getRecommendation that returns what the
\* failed fallback left
GenerateRejectsNoDefault(a, kind) ==
    IF kind = "503" /\ a.retries < BackoffMaxRetries
    THEN [a EXCEPT !.pc = "backoff", !.retries = a.retries + 1]
    ELSE IF a.stage = "gemini-primary"
         THEN [HandleGeminiError(a, kind) EXCEPT !.pc = "acquire", !.retries = 0,
                                                 !.stage = "gemini-fallback"]
         ELSE [HandleGeminiError(a, kind) EXCEPT !.pc = "execute"]

\* generateContent rejects: retryWithBackoff waits and retries an overload,
\* and throws anything else to getRecommendation, which handles the error
\* and goes on to the fallback model or to the default decision.
GenerateRejects(a, kind) ==
    IF kind = "503" /\ a.retries < BackoffMaxRetries
    THEN [a EXCEPT !.pc = "backoff", !.retries = a.retries + 1]
    ELSE IF a.stage = "gemini-primary"
         THEN [HandleGeminiError(a, kind) EXCEPT !.pc = "acquire", !.retries = 0,
                                                 !.stage = "gemini-fallback"]
         ELSE [HandleGeminiError(a, kind) EXCEPT !.pc = "execute",
                                                 !.aiDecision = BothFailedDecision]

\* CHECK(ai_model IN ('gemini', 'openai')) of table decisions
DecisionConstraintFails(decision) == decision.aiModel \notin {"gemini", "openai"}

\* decisionDb.create after executeDecision returned: the row is inserted and
\* the loop awaits the delay, or the INSERT throws into the catch block.
LogDecision(a) ==
    IF DecisionConstraintFails(a.aiDecision)
    THEN NextSymbolOf(a)
    ELSE [a EXCEPT !.pc = "delay",
                   !.decisions = Append(a.decisions,
                                        [cycle |-> a.cycles,
                                         symbol |-> Symbols[a.idx],
                                         recommendation |-> a.aiDecision.recommendation,
                                         reasoning |-> a.aiDecision.reasoning,
                                         aiModel |-> a.aiDecision.aiModel])]

----------------------------------------------------------------------------
(* Transaction (src/unnamed/part_009)                                      *)

MaxExecutes == 4

\* A Transaction after its constructor on a connection with no transaction
\* open: inTransaction, whether the connection has a transaction open, the
\* steps of the last execute, its outcome and error, and the calls made.
NewTransaction ==
    [inTransaction |-> FALSE, active |-> FALSE, steps |-> <<>>,
     outcome |-> NONE, error |-> NONE, executes |-> 0, last |-> [op |-> "none"]]

\* db.exec(sql): SQLite refuses BEGIN inside a transaction and COMMIT or
\* ROLLBACK outside one; otherwise the statement fails when fails is TRUE.
ExecFails(tx, sql, fails) ==
    \/ fails
    \/ sql = "BEGIN" /\ tx.active
    \/ sql # "BEGIN" /\ ~tx.active

Begin(tx, fails) ==
    IF tx.inTransaction
    THEN [tx EXCEPT !.error = "Transaction already in progress"]
    ELSE IF ExecFails(tx, "BEGIN", fails)
         THEN [tx EXCEPT !.steps = Append(tx.steps, "BEGIN"), !.error = "BEGIN failed"]
         ELSE [tx EXCEPT !.steps = Append(tx.steps, "BEGIN"), !.error = NONE,
                         !.active = TRUE, !.inTransaction = TRUE]

Commit(tx, fails) ==
    IF ~tx.inTransaction
    THEN [tx EXCEPT !.error = "No active transaction to commit"]
    ELSE IF ExecFails(tx, "COMMIT", fails)
         THEN [tx EXCEPT !.steps = Append(tx.steps, "COMMIT"), !.error = "COMMIT failed"]
         ELSE [tx EXCEPT !.steps = Append(tx.steps, "COMMIT"), !.error = NONE,
                         !.active = FALSE, !.inTransaction = FALSE]

Rollback(tx, fails) ==
    IF ~tx.inTransaction
    THEN [tx EXCEPT !.error = "No active transaction to rollback"]
    ELSE IF ExecFails(tx, "ROLLBACK", fails)
         THEN [tx EXCEPT !.steps = Append(tx.steps, "ROLLBACK"), !.error = "ROLLBACK failed"]
         ELSE [tx EXCEPT !.steps = Append(tx.steps, "ROLLBACK"), !.error = NONE,
                         !.active = FALSE, !.inTransaction = FALSE]

\* The catch block of execute: rollback() and then throw error, unless
\* rollback() itself throws.
Catch(tx, fails) ==
    LET rolled == Rollback(tx, fails)
    IN  IF rolled.error # NONE
        THEN [rolled EXCEPT !.outcome = "threw"]
        ELSE [rolled EXCEPT !.outcome = "threw", !.error = tx.error]

\* Transaction.execute(fn), fn returning or throwing, with the statements
\* that fail.
Execute(tx, fn, f) ==
    LET begun == Begin([tx EXCEPT !.steps = <<>>, !.outcome = NONE, !.error = NONE], f.begin)
        called == [begun EXCEPT !.steps = Append(begun.steps, "fn")]
        committed == Commit(called, f.commit)
    IN  IF begun.error # NONE THEN Catch(begun, f.rollback)
        ELSE IF fn = "throws" THEN Catch([called EXCEPT !.error = "fn error"], f.rollback)
        ELSE IF committed.error # NONE THEN Catch(committed, f.rollback)
        ELSE [committed EXCEPT !.outcome = "returned"]

----------------------------------------------------------------------------
(* HTTP rate limiter (src/backend/src/middleware/rateLimiter.js)           *)

\* maxRequests and windowMs (in clock units) of createRateLimiter
MaxRequests == 2
HttpWindowUnits == 2
MaxHttpTime == 3
MaxArrivals == 4

\* The requestStore entry of one key, the admitted requests that have not
\* sent their response (by arrival time), the arrival times of all admitted
\* requests, the number of requests answered 429, the clock.
NewHttp ==
    [requestStore |-> <<>>, inFlight |-> <<>>, admittedAt |-> <<>>,
     rejected |-> 0, time |-> 0, last |-> [op |-> "none", status |-> 0]]

----------------------------------------------------------------------------
(* MarketDataService.getStockQuote (marketDataService.js)                  *)

\* the callers of getStockQuote for one symbol, each calling once
MaxRequesters == 3
\* cacheTimeout, in clock units
CacheTimeoutUnits == 2
\* the clock stops here
MaxMarketTime == 3

\* The service after its constructor, seen for one cache key: no cache entry
\* (cache holds at most <<[data, timestamp]>>, data naming the fetch that
\* stored it), no pending request (pendingRequests holds at most the fetch
\* whose promise is stored), the fetches begun so far with their position and
\* the tokens each took, the callers of getStockQuote with the fetch whose
\* promise each awaits and what each received, the tokens acquired, the clock.
NewMarketData ==
    [cache |-> <<>>, pendingRequests |-> <<>>, fetches |-> <<>>,
     callers |-> [c \in 1..MaxRequesters |->
                    [pc |-> "idle", fetch |-> 0, received |-> NONE, from |-> 0]],
     acquired |-> 0, time |-> 0,
     last |-> [op |-> "none", caller |-> 0, served |-> NONE]]

----------------------------------------------------------------------------
(* State machine                                                           *)

DB == [balance |-> balance, positions |-> positions, trades |-> trades,
       botStatus |-> botStatus, nextPositionId |-> nextPositionId]

SetDB(db) ==
    /\ balance' = db.balance
    /\ positions' = db.positions
    /\ trades' = db.trades
    /\ botStatus' = db.botStatus
    /\ nextPositionId' = db.nextPositionId

NoCall == [op |-> "none"]

Idle == [pc |-> "idle", idx |-> 0, balance |-> 0, currentPrice |-> NULL,
         existingPosition |-> {}]

Init ==
    /\ balance = InitialBalance
    /\ positions = {}
    /\ trades = <<>>
    /\ botStatus = [trades_today |-> 0, last_trade_at |-> NULL]
    /\ nextPositionId = 1
    /\ now = 0
    /\ isRunning = FALSE
    /\ tasks = [t \in Tasks |-> Idle]
    /\ thrown = 0
    /\ lastCall = NoCall
    /\ call = [fn |-> "none"]
    /\ limiter = NewRateLimiter
    /\ resilience = NewResilience
    /\ analysis = NewAnalysis
    /\ transaction = NewTransaction
    /\ http = NewHttp
    /\ marketData = NewMarketData

\* A direct call of tradingEngine.openPosition.
DoOpenPosition ==
    \E symbol \in SymbolSet, side \in {"long", "short"} :
      \E entryPrice \in EntryPrices(symbol) :
        LET r == OpenPosition(DB, symbol, MarketTypeOf(symbol), side, entryPrice, now)
        IN  /\ nextPositionId <= MaxPositions
            /\ SetDB(r.db)
            /\ lastCall' = [op |-> "openPosition", symbol |-> symbol, side |-> side,
                            entryPrice |-> entryPrice, success |-> r.success,
                            threw |-> r.threw, error |-> r.error, id |-> r.id]
            /\ UNCHANGED <<now, isRunning, tasks, thrown, call, limiter, resilience, analysis, transaction, http, marketData>>

\* A direct call of tradingEngine.closePosition; the exit price may be null.
DoClosePosition ==
    \E positionId \in 1 .. MaxPositions, symbol \in SymbolSet :
      \E exitPrice \in ExitPrices(symbol) \cup {NULL} :
        LET r == ClosePosition(DB, positionId, exitPrice, "manual", now)
        IN  /\ \A p \in positions : p.id = positionId => p.symbol = symbol
            /\ r.threw => thrown < MaxThrown
            /\ thrown' = IF r.threw THEN thrown + 1 ELSE thrown
            /\ SetDB(r.db)
            /\ lastCall' = [op |-> "closePosition", positionId |-> positionId,
                            exitPrice |-> exitPrice, reason |-> "manual",
                            success |-> r.success, threw |-> r.threw,
                            error |-> r.error, profitLoss |-> r.profitLoss]
            /\ UNCHANGED <<now, isRunning, tasks, call, limiter, resilience, analysis, transaction, http, marketData>>

\* A direct call of tradingEngine.checkPositions.
DoCheckPositions ==
    \E marketPrices \in [SymbolSet -> {NULL} \cup UNION {MarketPrices(y) : y \in SymbolSet}] :
        LET r == CheckPositions(DB, marketPrices, now)
        IN  /\ \A y \in SymbolSet : marketPrices[y] \in MarketPrices(y) \cup {NULL}
            /\ positions # {}
            /\ SetDB(r.db)
            /\ lastCall' = [op |-> "checkPositions", marketPrices |-> marketPrices,
                            results |-> r.results]
            /\ UNCHANGED <<now, isRunning, tasks, thrown, call, limiter, resilience, analysis, transaction, http, marketData>>

\* POST /account/reset
DoResetAccount ==
    /\ SetDB(ResetAccount(DB))
    /\ lastCall' = [op |-> "resetAccount"]
    /\ UNCHANGED <<now, isRunning, tasks, thrown, call, limiter, resilience, analysis, transaction, http, marketData>>

\* The clock advances.
Tick ==
    /\ now < MaxTime
    /\ now' = now + 1
    /\ lastCall' = NoCall
    /\ UNCHANGED <<thrown, balance, positions, trades, botStatus, nextPositionId,
                   isRunning, tasks, call, limiter, resilience, analysis, transaction, http, marketData>>

\* runCycle up to its first await: the balance is read once per cycle.
BeginCycle(task) ==
    [pc |-> "marketData", idx |-> 1, balance |-> balance,
     currentPrice |-> NULL, existingPosition |-> {}]

\* The end of one symbol's iteration: the next symbol, or the cycle is over.
NextSymbol(task) ==
    IF task.idx < Len(Symbols)
    THEN [task EXCEPT !.pc = "marketData", !.idx = @ + 1,
                      !.currentPrice = NULL, !.existingPosition = {}]
    ELSE Idle

\* start(): schedules the cron job and runs the first cycle immediately.
Start ==
    /\ ~isRunning
    /\ isRunning' = TRUE
    /\ \E t \in Tasks :
         /\ tasks[t].pc = "idle"
         /\ tasks' = [tasks EXCEPT ![t] = BeginCycle(tasks[t])]
    /\ lastCall' = NoCall
    /\ UNCHANGED <<thrown, balance, positions, trades, botStatus, nextPositionId, now, call, limiter, resilience, analysis, transaction, http, marketData>>

\* The cron job fires runCycle.
CronCycle(t) ==
    /\ isRunning
    /\ tasks[t].pc = "idle"
    /\ tasks' = [tasks EXCEPT ![t] = BeginCycle(tasks[t])]
    /\ lastCall' = NoCall
    /\ UNCHANGED <<thrown, balance, positions, trades, botStatus, nextPositionId, now,
                   isRunning, call, limiter, resilience, analysis, transaction, http, marketData>>

\* triggerCycle(): POST /bot/trigger runs a cycle while the bot is running.
TriggerCycle(t) ==
    /\ isRunning
    /\ tasks[t].pc = "idle"
    /\ tasks' = [tasks EXCEPT ![t] = BeginCycle(tasks[t])]
    /\ lastCall' = NoCall
    /\ UNCHANGED <<thrown, balance, positions, trades, botStatus, nextPositionId, now,
                   isRunning, call, limiter, resilience, analysis, transaction, http, marketData>>

\* getMarketData resolves: indicators are computed and the existing position
\* is read; the task then awaits the AI recommendation.
MarketDataDone(t) ==
    /\ tasks[t].pc = "marketData"
    /\ \E price \in Quotes(Symbols[tasks[t].idx]) :
         \E existing \in GetBySymbol(DB, Symbols[tasks[t].idx]) :
           tasks' = [tasks EXCEPT ![t] = [@ EXCEPT !.pc = "recommendation",
                                                   !.currentPrice = price,
                                                   !.existingPosition = existing]]
    /\ lastCall' = NoCall
    /\ UNCHANGED <<thrown, balance, positions, trades, botStatus, nextPositionId, now,
                   isRunning, call, limiter, resilience, analysis, transaction, http, marketData>>

\* getMarketData rejects: the catch block logs and the loop goes on.
MarketDataFail(t) ==
    /\ tasks[t].pc = "marketData"
    /\ tasks' = [tasks EXCEPT ![t] = NextSymbol(@)]
    /\ lastCall' = NoCall
    /\ UNCHANGED <<thrown, balance, positions, trades, botStatus, nextPositionId, now,
                   isRunning, call, limiter, resilience, analysis, transaction, http, marketData>>

\* getRecommendation resolves: executeDecision runs to completion, then the
\* task awaits the inter-symbol delay.
RecommendationStep(t, idCap) ==
    /\ tasks[t].pc = "recommendation"
    /\ \E recommendation \in {"BUY", "SELL", "HOLD"} :
         \E dbPosition \in GetBySymbol(DB, Symbols[tasks[t].idx]) :
           \E lastTrade \in LatestTrade(trades) :
             \E symbol \in {Symbols[tasks[t].idx]} :
               \E r \in {ExecuteDecision(DB, symbol, MarketTypeOf(symbol),
                                         recommendation, tasks[t].currentPrice,
                                         tasks[t].existingPosition, tasks[t].balance,
                                         dbPosition, lastTrade, now)} :
                 /\ r.action = "OPENED_LONG" => nextPositionId <= idCap
                 /\ r.threw => thrown < MaxThrown
                 /\ thrown' = IF r.threw THEN thrown + 1 ELSE thrown
                 /\ SetDB(r.db)
                 /\ lastCall' = [op |-> "executeDecision", symbol |-> symbol,
                                 recommendation |-> recommendation,
                                 currentPrice |-> tasks[t].currentPrice,
                                 action |-> r.action, message |-> r.message]
                 /\ tasks' = [tasks EXCEPT ![t] =
                                IF r.threw THEN NextSymbol(@)
                                ELSE [@ EXCEPT !.pc = "delay",
                                               !.currentPrice = NULL,
                                               !.existingPosition = {}]]
    /\ UNCHANGED <<now, isRunning, call, limiter, resilience, analysis, transaction, http, marketData>>

RecommendationDone(t) == RecommendationStep(t, MaxPositions)

\* The inter-symbol delay elapses.
DelayDone(t) ==
    /\ tasks[t].pc = "delay"
    /\ tasks' = [tasks EXCEPT ![t] = NextSymbol(@)]
    /\ lastCall' = NoCall
    /\ UNCHANGED <<thrown, balance, positions, trades, botStatus, nextPositionId, now,
                   isRunning, call, limiter, resilience, analysis, transaction, http, marketData>>

CycleNext ==
    \/ Start
    \/ \E t \in Tasks : CronCycle(t)
    \/ \E t \in Tasks : TriggerCycle(t)
    \/ \E t \in Tasks : MarketDataDone(t)
    \/ \E t \in Tasks : MarketDataFail(t)
    \/ \E t \in Tasks : RecommendationDone(t)
    \/ \E t \in Tasks : DelayDone(t)
    \/ Tick

\* Decision cycles only: every open and close is made by executeDecision.
CycleSpec == Init /\ [][CycleNext]_vars

CronNext ==
    \/ Start
    \/ \E t \in Tasks : CronCycle(t)
    \/ \E t \in Tasks : MarketDataDone(t)
    \/ \E t \in Tasks : MarketDataFail(t)
    \/ \E t \in Tasks : RecommendationDone(t)
    \/ \E t \in Tasks : DelayDone(t)
    \/ Tick

\* Decision cycles started by start() and by the cron job only.
CronSpec == Init /\ [][CronNext]_vars

Next ==
    \/ DoOpenPosition
    \/ DoClosePosition
    \/ DoCheckPositions
    \/ DoResetAccount
    \/ Tick

\* The TradingEngine under direct calls of its operations.
Spec == Init /\ [][Next]_vars

\* A position in AAPL is opened at 200 and closed at exitPrice.
RoundTrip(db, exitPrice) ==
    LET opened == OpenPosition(db, "AAPL", "stock", "long", 20000000, 0)
    IN  ClosePosition(opened.db, opened.id, exitPrice, "AI_SELL_SIGNAL", 0).db

NewDatabase ==
    [balance |-> InitialBalance, positions |-> {}, trades |-> <<>>,
     botStatus |-> [trades_today |-> 0, last_trade_at |-> NULL],
     nextPositionId |-> 1]

\* The database in the course of a trading day: three positions were opened
\* and closed, the last one at lastExit; the daily reset ran either before
\* the first of them or after it.
DayInit ==
    /\ \E resetAfterFirst \in BOOLEAN, lastExit \in ExitPrices("AAPL") :
         \E first \in {RoundTrip(NewDatabase, 21000000)} :
           \E second \in {RoundTrip(IF resetAfterFirst
                                     THEN BotDbResetDailyTrades(first)
                                     ELSE first, 21000000)} :
             \E db \in {RoundTrip(second, lastExit)} :
                 /\ balance = db.balance
                 /\ positions = db.positions
                 /\ trades = db.trades
                 /\ botStatus = db.botStatus
                 /\ nextPositionId = db.nextPositionId
    /\ now = 0
    /\ isRunning = FALSE
    /\ tasks = [t \in Tasks |-> Idle]
    /\ thrown = 0
    /\ lastCall = NoCall
    /\ call = [fn |-> "none"]
    /\ limiter = NewRateLimiter
    /\ resilience = NewResilience
    /\ analysis = NewAnalysis
    /\ transaction = NewTransaction
    /\ http = NewHttp
    /\ marketData = NewMarketData

\* The midnight cron job of start(): botDb.resetDailyTrades().
DailyReset ==
    /\ isRunning
    /\ botStatus.trades_today # 0
    /\ SetDB(BotDbResetDailyTrades(DB))
    /\ lastCall' = [op |-> "resetDailyTrades"]
    /\ UNCHANGED <<now, isRunning, tasks, thrown, call, limiter, resilience, analysis, transaction, http, marketData>>

DayRecommendationDone(t) == RecommendationStep(t, MaxDayPositions)

DayNext ==
    \/ Start
    \/ \E t \in Tasks : CronCycle(t)
    \/ \E t \in Tasks : TriggerCycle(t)
    \/ \E t \in Tasks : MarketDataDone(t)
    \/ \E t \in Tasks : MarketDataFail(t)
    \/ \E t \in Tasks : DayRecommendationDone(t)
    \/ \E t \in Tasks : DelayDone(t)
    \/ DailyReset
    \/ Tick

\* Decision cycles from the middle of a trading day, with the daily reset.
DaySpec == DayInit /\ [][DayNext]_vars

----------------------------------------------------------------------------
(* Claims about TradingEngine, checked under Spec                          *)

\* the position a closePosition call names, as a set of at most one row
Named(positionId) == {p \in positions : p.id = positionId}

\* C1: closePosition is all-or-nothing: a call that does not succeed leaves
\* the balance, the positions and the trades as they were.
C1_CloseAllOrNothing ==
    [][(lastCall'.op = "closePosition" /\ ~lastCall'.success)
         => UNCHANGED <<balance, positions, trades>>]_vars

\* C3: a successful closePosition adds the profit or loss of the position's
\* stored entry data to the balance, removes exactly that position and
\* appends exactly one trade with the position's entry fields, the given
\* exit price and the given reason.
C3_CloseSettles ==
    [][(lastCall'.op = "closePosition" /\ lastCall'.success) =>
        \E p \in Named(lastCall'.positionId) :
          LET pl == CalculateProfitLoss(p.entry_price, lastCall'.exitPrice,
                                        p.quantity, p.side).profitLoss
              t == trades'[Len(trades')]
          IN  /\ balance' = balance + pl
              /\ positions' = positions \ {p}
              /\ Len(trades') = Len(trades) + 1
              /\ SubSeq(trades', 1, Len(trades)) = trades
              /\ t.symbol = p.symbol /\ t.market_type = p.market_type
              /\ t.side = p.side /\ t.entry_price = p.entry_price
              /\ t.quantity = p.quantity /\ t.opened_at = p.opened_at
              /\ t.exit_price = lastCall'.exitPrice
              /\ t.exit_reason = lastCall'.reason
              /\ t.profit_loss = pl]_vars

\* a close with a profit while another position stays open
C3_Witness ==
    /\ lastCall.op = "closePosition"
    /\ lastCall.success
    /\ lastCall.profitLoss > 0
    /\ positions # {}
    /\ balance = InitialBalance + lastCall.profitLoss

\* C4: openPosition never changes the balance; a successful open adds exactly
\* one position and one to the trades-today counter, a failed open changes
\* nothing.
C4_OpenKeepsBalance ==
    [][lastCall'.op = "openPosition" =>
        /\ balance' = balance
        /\ trades' = trades
        /\ IF lastCall'.success
           THEN /\ \E p \in positions' :
                     /\ p \notin positions
                     /\ positions' = positions \cup {p}
                     /\ p.id = lastCall'.id
                     /\ p.symbol = lastCall'.symbol
                     /\ p.entry_price = lastCall'.entryPrice
                /\ botStatus'.trades_today = botStatus.trades_today + 1
           ELSE UNCHANGED <<positions, botStatus, nextPositionId>>]_vars

\* a second position opened at an unchanged balance
C4_Witness ==
    /\ lastCall.op = "openPosition"
    /\ lastCall.success
    /\ Cardinality(positions) = 2
    /\ balance = InitialBalance

\* a failed open
C4_WitnessFailed ==
    /\ lastCall.op = "openPosition"
    /\ ~lastCall.success

\* C5: closePosition on an id that matches no open position fails with
\* 'Position not found' and changes nothing; a second close of the id just
\* closed is such a call, so the balance is credited once and one trade is
\* recorded.
C5_CloseUnknownId ==
    [][/\ (lastCall'.op = "closePosition" /\ Named(lastCall'.positionId) = {})
            => /\ ~lastCall'.success
               /\ lastCall'.error = "Position not found"
               /\ UNCHANGED <<balance, positions, trades>>
       /\ (/\ lastCall.op = "closePosition" /\ lastCall.success
           /\ lastCall'.op = "closePosition"
           /\ lastCall'.positionId = lastCall.positionId)
            => /\ lastCall'.error = "Position not found"
               /\ UNCHANGED <<balance, positions, trades>>]_vars

\* an id closed a moment ago is closed again, in vain
C5_Witness ==
    /\ lastCall.op = "closePosition"
    /\ lastCall.error = "Position not found"
    /\ lastCall.positionId < nextPositionId
    /\ trades # <<>>

\* C6: a position becomes open only through openPosition, under an id never
\* used before; it leaves the open set only through closePosition (called
\* directly or by checkPositions), which appends one trade per position it
\* removes; an open row is never changed and a recorded trade is never
\* changed or removed.
C6_PositionLifecycle ==
    [][/\ \A p \in positions' \ positions :
            /\ lastCall'.op = "openPosition"
            /\ p.id >= nextPositionId
            /\ nextPositionId' > p.id
       /\ nextPositionId' >= nextPositionId
       /\ \A p \in positions \ positions' :
            /\ lastCall'.op \in {"closePosition", "checkPositions"}
            /\ ~\E q \in positions' : q.id = p.id
            /\ \E i \in (Len(trades) + 1) .. Len(trades') :
                 /\ trades'[i].symbol = p.symbol
                 /\ trades'[i].entry_price = p.entry_price
                 /\ trades'[i].quantity = p.quantity
                 /\ trades'[i].side = p.side
       /\ Len(trades') - Len(trades) = Cardinality(positions \ positions')
       /\ SubSeq(trades', 1, Len(trades)) = trades]_vars

\* a position was opened after an earlier one had been closed into a trade
C6_Witness ==
    /\ lastCall.op = "openPosition"
    /\ lastCall.success
    /\ lastCall.id = 2
    /\ Len(trades) = 1
    /\ Cardinality(positions) = 1

----------------------------------------------------------------------------
(* Claims about the decision cycle, checked under CycleSpec                *)

\* C2: under any interleaving of decision cycles there are never two open
\* positions for the same symbol.
C2_OnePositionPerSymbol ==
    \A p \in positions, q \in positions : p.symbol = q.symbol => p = q

\* a BUY decided on a snapshot without a position is stopped by the
\* duplicate rule alone: another cycle opened the symbol in between
C2_Witness ==
    /\ lastCall.op = "executeDecision"
    /\ lastCall.recommendation = "BUY"
    /\ lastCall.action = "BLOCKED"
    /\ lastCall.message = <<"NO_DUPLICATE_POSITION">>

\* C8: every trade recorded as STOP_LOSS_HIT has the position's stop-loss as
\* its exit price and every trade recorded as TAKE_PROFIT_HIT its
\* take-profit.
C8_TriggeredExitAtLevel ==
    \A i \in DOMAIN trades :
        LET t == trades[i]
            levels == CalculateStopLevels(t.entry_price, t.side, t.market_type)
        IN  /\ t.exit_reason = "STOP_LOSS_HIT" => t.exit_price = levels.stopLoss
            /\ t.exit_reason = "TAKE_PROFIT_HIT" => t.exit_price = levels.takeProfit

\* C11: in decision cycles the trades-today counter never exceeds
\* maxTradesPerDay: once it has reached the maximum, executeDecision opens no
\* further position (a BUY is answered BLOCKED) until the daily reset.
C11_DailyTradeCap ==
    [][/\ botStatus'.trades_today <= MaxTradesPerDay
       /\ botStatus.trades_today >= MaxTradesPerDay =>
            /\ positions' \subseteq positions
            /\ lastCall'.op = "executeDecision" => lastCall'.action # "OPENED_LONG"
            /\ botStatus'.trades_today \in {MaxTradesPerDay, 0}
            /\ botStatus'.trades_today = 0 => lastCall'.op = "resetDailyTrades"]_vars

\* a cycle opened the position that brought the counter to the maximum, and
\* the BUY for the other symbol is blocked by the daily maximum alone
C11_Witness ==
    /\ Cardinality(positions) = 1
    /\ lastCall.op = "executeDecision"
    /\ lastCall.recommendation = "BUY"
    /\ lastCall.action = "BLOCKED"
    /\ lastCall.message = <<"MAX_TRADES_PER_DAY">>
    /\ botStatus.trades_today = MaxTradesPerDay

\* C12: the canOpenTrade call of a BUY decision reports a failed
\* LOSS_COOLDOWN check exactly when the most recent trade was a loss and fewer
\* than 15 minutes have passed since that trade was closed.
C12_CooldownFromLosingClose ==
    [][LET latest == UNION LatestTrade(trades)
       IN  (/\ lastCall'.op = "executeDecision"
            /\ lastCall'.recommendation = "BUY"
            /\ lastCall'.action \in {"OPENED_LONG", "BLOCKED", "FAILED"}
            /\ Cardinality(latest) <= 1)
           => ((\E i \in DOMAIN lastCall'.message :
                    lastCall'.message[i] = "LOSS_COOLDOWN")
               <=> (\E lt \in latest :
                       /\ lt.profit_loss < 0
                       /\ now - lt.closed_at < CooldownUnits))]_vars

----------------------------------------------------------------------------
(* RiskManager functions and openPosition applied to drawn inputs          *)

RiskEntryPrices == {8, 32, 110000, 10000000}

Sides == {"long", "short"}

MarketTypes == {"stock", "forex"}

\* positions as shouldClosePosition reads them: levels computed by
\* calculateStopLevels, and the position of riskManager.test.js
RiskPositions ==
    {[side |-> side, entry_price |-> e,
      stop_loss |-> CalculateStopLevels(e, side, m).stopLoss,
      take_profit |-> CalculateStopLevels(e, side, m).takeProfit] :
        e \in {110000, 10000000}, side \in Sides, m \in MarketTypes}
    \cup {[side |-> "long", entry_price |-> 10000000,
           stop_loss |-> 9750000, take_profit |-> 11000000]}

\* prices at, next to and between the levels of a position
ProbePrices(p) ==
    {p.stop_loss - 1, p.stop_loss, p.stop_loss + 1, p.entry_price,
     p.take_profit - 1, p.take_profit, p.take_profit + 1}

\* the open position canOpenTrade finds for the symbol
RiskExisting ==
    [id |-> 1, symbol |-> "EUR/USD", market_type |-> "forex", side |-> "long",
     entry_price |-> 110000, quantity |-> 863600, stop_loss |-> 109650,
     take_profit |-> 110700, opened_at |-> 0]

RiskBalances == {5000, 9999, 10000, 1000000}

RiskProfits == {-100, 0, 100}

CallCalculateStopLevels ==
    /\ \E entryPrice \in RiskEntryPrices, side \in Sides, marketType \in MarketTypes :
         call' = [fn |-> "calculateStopLevels", entryPrice |-> entryPrice,
                  side |-> side, marketType |-> marketType,
                  result |-> CalculateStopLevels(entryPrice, side, marketType)]
    /\ UNCHANGED <<balance, positions, trades, botStatus, nextPositionId, now,
                   isRunning, tasks, thrown, lastCall, limiter, resilience, analysis, transaction, http, marketData>>

CallShouldClosePosition ==
    /\ \E position \in RiskPositions :
         \E currentPrice \in ProbePrices(position) :
           call' = [fn |-> "shouldClosePosition", position |-> position,
                    currentPrice |-> currentPrice,
                    result |-> ShouldClosePosition(position, currentPrice)]
    /\ UNCHANGED <<balance, positions, trades, botStatus, nextPositionId, now,
                   isRunning, tasks, thrown, lastCall, limiter, resilience, analysis, transaction, http, marketData>>

\* canOpenTrade over the values its reads can return: the bot_status row,
\* the position of the symbol, the latest trade and the clock.
CallCanOpenTrade ==
    /\ \E tradesToday \in 0 .. MaxTradesPerDay, bal \in RiskBalances,
          existing \in {{}, {RiskExisting}},
          lastTradeAt \in {NULL} \cup (0 .. MaxTime), t \in 0 .. MaxTime + CooldownUnits,
          lastTrade \in {{}} \cup {{[profit_loss |-> pl]} : pl \in RiskProfits} :
         /\ lastTradeAt # NULL => lastTradeAt <= t
         /\ call' = [fn |-> "canOpenTrade", tradesToday |-> tradesToday,
                     balance |-> bal, existingPosition |-> existing,
                     lastTradeAt |-> lastTradeAt, lastTrade |-> lastTrade, now |-> t,
                     result |-> CanOpenTrade(
                        [botStatus |-> [trades_today |-> tradesToday,
                                        last_trade_at |-> lastTradeAt]],
                        "EUR/USD", "forex", bal, existing, lastTrade, t)]
    /\ UNCHANGED <<balance, positions, trades, botStatus, nextPositionId, now,
                   isRunning, tasks, thrown, lastCall, limiter, resilience, analysis, transaction, http, marketData>>

\* balances in cents: negative, zero, below the price of one share, 10000.00
RiskSizeBalances == {-10000, 0, 9999, 1000000}

\* stop prices handed to calculatePositionSize for an entry price: the entry
\* price itself and the levels calculateStopLevels gives
RiskStops(entryPrice, marketType) ==
    {entryPrice} \cup {CalculateStopLevels(entryPrice, side, marketType).stopLoss :
                         side \in Sides}

CallCalculatePositionSize ==
    /\ \E bal \in RiskSizeBalances, entryPrice \in {8, 110000, 20000000},
          marketType \in MarketTypes :
         \E stopLossPrice \in RiskStops(entryPrice, marketType) :
           call' = [fn |-> "calculatePositionSize", balance |-> bal,
                    entryPrice |-> entryPrice, stopLossPrice |-> stopLossPrice,
                    marketType |-> marketType,
                    result |-> CalculatePositionSize(bal, entryPrice,
                                                     stopLossPrice, marketType)]
    /\ UNCHANGED <<balance, positions, trades, botStatus, nextPositionId, now,
                   isRunning, tasks, thrown, lastCall, limiter, resilience, analysis, transaction, http, marketData>>

\* openPosition arguments (symbol, marketType, entryPrice): valid ones, a
\* price whose stop rounds onto it, a null price, an unknown market type
OpenArguments ==
    {<<"AAPL", "stock", 8>>, <<"AAPL", "stock", 20000000>>,
     <<"AAPL", "stock", NULL>>, <<"AAPL", "invalid", 15000000>>,
     <<"USD/JPY", "forex", 15000000>>, <<"EUR/USD", "forex", 110000>>,
     <<"EUR/USD", "forex", NULL>>}

\* balances in cents of the account openPosition reads: negative, 50.00, 10000.00
OpenBalances == {-10000, 5000, 1000000}

\* openPosition on an account without positions.  A null price is not
\* combined with a negative balance.
CallOpenPosition ==
    /\ \E bal \in OpenBalances, args \in OpenArguments,
          side \in Sides \cup {"invalid"} :
         LET db == [balance |-> bal, positions |-> {}, trades |-> <<>>,
                    botStatus |-> [trades_today |-> 0, last_trade_at |-> NULL],
                    nextPositionId |-> 1]
         IN  /\ args[3] = NULL => bal >= 0
             /\ call' = [fn |-> "openPosition", db |-> db, symbol |-> args[1],
                         marketType |-> args[2], side |-> side,
                         entryPrice |-> args[3],
                         result |-> OpenPosition(db, args[1], args[2], side,
                                                 args[3], 0)]
    /\ UNCHANGED <<balance, positions, trades, botStatus, nextPositionId, now,
                   isRunning, tasks, thrown, lastCall, limiter, resilience, analysis, transaction, http, marketData>>

\* entry and exit prices of a trade: the prices of riskManager.test.js, and
\* prices one tick and a hundred ticks apart
ProfitLossPrices ==
    {<<10000000, 11000000>>, <<10000000, 9000000>>}
    \cup {<<e, e + d>> : e \in {110000, 10000000}, d \in {-100, -1, 0, 1, 100}}

\* quantities in hundredths: 0.01, 10 and 8636 units
ProfitLossQuantities == {1, 1000, 863600}

CallCalculateProfitLoss ==
    /\ \E prices \in ProfitLossPrices, quantity \in ProfitLossQuantities,
          side \in Sides :
         call' = [fn |-> "calculateProfitLoss", entryPrice |-> prices[1],
                  exitPrice |-> prices[2], quantity |-> quantity, side |-> side,
                  result |-> CalculateProfitLoss(prices[1], prices[2],
                                                 quantity, side)]
    /\ UNCHANGED <<balance, positions, trades, botStatus, nextPositionId, now,
                   isRunning, tasks, thrown, lastCall, limiter, resilience, analysis, transaction, http, marketData>>

RiskNext ==
    \/ CallCalculateProfitLoss
    \/ CallOpenPosition
    \/ CallCalculatePositionSize
    \/ CallCalculateStopLevels
    \/ CallShouldClosePosition
    \/ CallCanOpenTrade

RiskSpec == Init /\ [][RiskNext]_vars

----------------------------------------------------------------------------
(* RateLimiter: callers, timers and the clock                              *)

OtherThanLimiter == <<balance, positions, trades, botStatus, nextPositionId, now, isRunning, tasks, thrown, lastCall, call, resilience, analysis, transaction, http, marketData>>

\* A service calls this.rateLimiter.acquire().
LimiterAcquire ==
    /\ limiter.calls < MaxCallers
    /\ limiter' = Acquire(limiter)
    /\ UNCHANGED OtherThanLimiter

\* The timer of await this.sleep(waitTime) fires, no earlier than it is
\* due, and processQueue goes on with its loop.
LimiterWake ==
    /\ \E i \in DOMAIN limiter.sleeping :
         /\ limiter.sleeping[i] <= limiter.time
         /\ limiter' = DrainLoop([limiter EXCEPT !.sleeping = RemoveAt(limiter.sleeping, i)])
    /\ UNCHANGED OtherThanLimiter

\* getStatus() refills before it reports.
LimiterGetStatus ==
    /\ limiter' = RefillTokens(limiter)
    /\ UNCHANGED OtherThanLimiter

LimiterDoReset ==
    /\ limiter' = LimiterReset(limiter)
    /\ UNCHANGED OtherThanLimiter

\* Date.now() advances by one clock unit.
LimiterTick ==
    /\ limiter.time < MaxLimiterTime
    /\ limiter' = [limiter EXCEPT !.time = limiter.time + 1]
    /\ UNCHANGED OtherThanLimiter

LimiterNext ==
    \/ LimiterAcquire
    \/ LimiterWake
    \/ LimiterGetStatus
    \/ LimiterDoReset
    \/ LimiterTick

LimiterSpec == Init /\ [][LimiterNext]_vars

MathMax(a, b) == IF a >= b THEN a ELSE b

\* Date.now() advances by one clock unit without end.  The limiter reads
\* the clock only in now - lastRefill, compared with windowMs, and in
\* timers being due, so the origin of the clock moves along: the reading
\* stays and the recorded instants move one unit into the past, no further
\* than a whole window for lastRefill and than "due" for a timer.
LimiterElapse ==
    /\ limiter' = [limiter EXCEPT
                     !.lastRefill = MathMax(limiter.lastRefill - 1,
                                            limiter.time - WindowUnits),
                     !.sleeping = [i \in DOMAIN limiter.sleeping |->
                                     MathMax(limiter.sleeping[i] - 1, limiter.time)],
                     !.resolvedAt = [i \in DOMAIN limiter.resolvedAt |->
                                       MathMax(limiter.resolvedAt[i] - 1,
                                               limiter.time - WindowUnits)]]
    /\ UNCHANGED OtherThanLimiter

LimiterLiveNext ==
    \/ LimiterAcquire
    \/ LimiterWake
    \/ LimiterGetStatus
    \/ LimiterDoReset
    \/ LimiterElapse

\* Time passes and a due timer fires.
LimiterLiveSpec ==
    /\ Init
    /\ [][LimiterLiveNext]_vars
    /\ WF_vars(LimiterElapse)
    /\ WF_vars(LimiterWake)

----------------------------------------------------------------------------
(* CircuitBreaker under direct calls; callWithResilience                   *)

OtherThanResilience == <<balance, positions, trades, botStatus, nextPositionId, now, isRunning, tasks, thrown, lastCall, call, limiter, analysis, transaction, http, marketData>>

\* the breaker whose methods are called directly
DirectService == "gemini"

BreakerCanAttempt ==
    /\ LET asked == CanAttempt(resilience.breakers[DirectService], resilience.time)
       IN  resilience' = [resilience EXCEPT
                            !.breakers[DirectService] = asked[1],
                            !.last = [op |-> "canAttempt", service |-> DirectService,
                                      result |-> asked[2]]]
    /\ UNCHANGED OtherThanResilience

BreakerRecordSuccess ==
    /\ resilience' = [resilience EXCEPT
                        !.breakers[DirectService] = RecordSuccess(@),
                        !.last = [op |-> "recordSuccess", service |-> DirectService]]
    /\ UNCHANGED OtherThanResilience

BreakerRecordFailure ==
    /\ resilience.breakers[DirectService].failureCount < MaxFailureCount
    /\ resilience' = [resilience EXCEPT
                        !.breakers[DirectService] = RecordFailure(@, resilience.time),
                        !.last = [op |-> "recordFailure", service |-> DirectService]]
    /\ UNCHANGED OtherThanResilience

\* Date.now() advances by one clock unit.
BreakerTick ==
    /\ resilience.time < MaxBreakerTime
    /\ resilience' = [resilience EXCEPT !.time = resilience.time + 1,
                                        !.last = [op |-> "tick"]]
    /\ UNCHANGED OtherThanResilience

BreakerNext ==
    \/ BreakerCanAttempt
    \/ BreakerRecordSuccess
    \/ BreakerRecordFailure
    \/ BreakerTick

\* One CircuitBreaker, its methods called in any order at any time.
BreakerSpec == Init /\ [][BreakerNext]_vars

DoResetBreaker ==
    /\ resilience' = [resilience EXCEPT
                        !.breakers[DirectService] = ResetBreaker(@),
                        !.last = [op |-> "resetBreaker", service |-> DirectService]]
    /\ UNCHANGED OtherThanResilience

\* One CircuitBreaker of the registry, its methods and the registry's
\* resetBreaker called in any order at any time.
RegistrySpec == Init /\ [][BreakerNext \/ DoResetBreaker]_vars

OtherThanMarketData == <<balance, positions, trades, botStatus, nextPositionId, now, isRunning, tasks, thrown, lastCall, call, limiter, resilience, analysis, transaction, http>>

\* A caller calls getStockQuote(symbol): the part that runs before the first
\* await. A fresh cache entry is returned; else the pending promise is
\* returned; else _fetchStockQuote is called (it runs up to its await of
\* rateLimiter.acquire()), its promise is stored and awaited.
GetStockQuote(c) ==
    /\ marketData.callers[c].pc = "idle"
    /\ \E m \in {marketData} :
         \E fresh \in {m.cache # <<>> /\ m.time - m.cache[1].timestamp < CacheTimeoutUnits} :
           marketData' =
             IF fresh
             THEN [m EXCEPT
                     !.callers[c] = [pc |-> "done", fetch |-> 0, received |-> "data",
                                     from |-> m.cache[1].data],
                     !.last = [op |-> "getStockQuote", caller |-> c, served |-> "cache"]]
             ELSE IF m.pendingRequests # <<>>
             THEN [m EXCEPT
                     !.callers[c] = [pc |-> "awaitPending", fetch |-> m.pendingRequests[1],
                                     received |-> NONE, from |-> 0],
                     !.last = [op |-> "getStockQuote", caller |-> c, served |-> "pending"]]
             ELSE [m EXCEPT
                     !.fetches = Append(@, [pc |-> "acquire", tokens |-> 0]),
                     !.pendingRequests = <<Len(m.fetches) + 1>>,
                     !.callers[c] = [pc |-> "awaitOwn", fetch |-> Len(m.fetches) + 1,
                                     received |-> NONE, from |-> 0],
                     !.last = [op |-> "getStockQuote", caller |-> c, served |-> "fetch"]]
    /\ UNCHANGED OtherThanMarketData

\* rateLimiter.acquire() resolves for a fetch: it has taken one token, and
\* axios.get is called.
FetchAcquires ==
    /\ \E f \in DOMAIN marketData.fetches :
         /\ marketData.fetches[f].pc = "acquire"
         /\ marketData' = [marketData EXCEPT
                             !.fetches[f] = [pc |-> "axios", tokens |-> @.tokens + 1],
                             !.acquired = @ + 1,
                             !.last = [op |-> "acquire", caller |-> 0, served |-> NONE]]
    /\ UNCHANGED OtherThanMarketData

\* axios.get settles for a fetch: with a quote, which setCache stores before
\* the fetch resolves, or with an error (or an error status in the body),
\* which the catch block rethrows.
AxiosSettles ==
    /\ \E f \in DOMAIN marketData.fetches, ok \in BOOLEAN :
         /\ marketData.fetches[f].pc = "axios"
         /\ marketData' =
              IF ok
              THEN [marketData EXCEPT
                      !.fetches[f].pc = "resolved",
                      !.cache = <<[data |-> f, timestamp |-> marketData.time]>>,
                      !.last = [op |-> "axiosResolves", caller |-> 0, served |-> NONE]]
              ELSE [marketData EXCEPT
                      !.fetches[f].pc = "rejected",
                      !.last = [op |-> "axiosRejects", caller |-> 0, served |-> NONE]]
    /\ UNCHANGED OtherThanMarketData

\* A caller's promise settles with the settled fetch it awaits; the caller
\* that began a fetch runs its finally block, which deletes the key from
\* pendingRequests.
Continue(c) ==
    /\ marketData.callers[c].pc \in {"awaitOwn", "awaitPending"}
    /\ \E f \in {marketData.callers[c].fetch} :
         /\ marketData.fetches[f].pc \in {"resolved", "rejected"}
         /\ marketData' = [marketData EXCEPT
                             !.callers[c] =
                                 [pc |-> "done", fetch |-> f,
                                  received |-> IF marketData.fetches[f].pc = "resolved"
                                               THEN "data" ELSE "error",
                                  from |-> f],
                             !.pendingRequests =
                                 IF marketData.callers[c].pc = "awaitOwn" THEN <<>> ELSE @,
                             !.last = [op |-> "continue", caller |-> c, served |-> NONE]]
    /\ UNCHANGED OtherThanMarketData

\* clearCache()
ClearCache ==
    /\ marketData' = [marketData EXCEPT
                        !.cache = <<>>,
                        !.pendingRequests = <<>>,
                        !.last = [op |-> "clearCache", caller |-> 0, served |-> NONE]]
    /\ UNCHANGED OtherThanMarketData

MarketDataTick ==
    /\ marketData.time < MaxMarketTime
    /\ marketData' = [marketData EXCEPT
                        !.time = @ + 1,
                        !.last = [op |-> "tick", caller |-> 0, served |-> NONE]]
    /\ UNCHANGED OtherThanMarketData

\* getStockQuote of one symbol called by several callers at any time, the
\* fetches settling in any order, clearCache called at any time.
MarketDataSpec ==
    Init /\ [][\/ \E c \in 1..MaxRequesters : GetStockQuote(c)
               \/ FetchAcquires
               \/ AxiosSettles
               \/ \E c \in 1..MaxRequesters : Continue(c)
               \/ ClearCache
               \/ MarketDataTick]_vars

\* A caller without a call in flight calls callWithResilience(s, fn).
DoCallWithResilience(c) ==
    /\ resilience.tasks[c].pc \in {"idle", "done"}
    /\ resilience.calls < MaxCalls
    /\ \E s \in Services : resilience' = CallWithResilience(resilience, c, s)
    /\ UNCHANGED OtherThanResilience

DoFnResolves(c) ==
    /\ resilience.tasks[c].pc = "fn"
    /\ resilience' = FnResolves(resilience, c)
    /\ UNCHANGED OtherThanResilience

DoFnRejects(c) ==
    /\ resilience.tasks[c].pc = "fn"
    /\ resilience' = FnRejects(resilience, c)
    /\ UNCHANGED OtherThanResilience

DoSleepOver(c) ==
    /\ resilience.tasks[c].pc = "sleep"
    /\ resilience' = SleepOver(resilience, c)
    /\ UNCHANGED OtherThanResilience

ResilienceNext ==
    \/ \E c \in Callers : DoCallWithResilience(c)
    \/ \E c \in Callers : DoFnResolves(c)
    \/ \E c \in Callers : DoFnRejects(c)
    \/ \E c \in Callers : DoSleepOver(c)
    \/ BreakerTick

\* Calls of callWithResilience by two callers to two services.  fn settles
\* and the timer of sleep fires.
ResilienceSpec ==
    /\ Init
    /\ [][ResilienceNext]_vars
    /\ \A c \in Callers : WF_vars(DoFnResolves(c) \/ DoFnRejects(c))
    /\ \A c \in Callers : WF_vars(DoSleepOver(c))

----------------------------------------------------------------------------
(* runCycle over GeminiService, with the decision log                      *)

OtherThanAnalysis == <<balance, positions, trades, botStatus, nextPositionId, now, isRunning, tasks, thrown, lastCall, call, limiter, resilience, transaction, http, marketData>>

\* The cron job or the trigger starts runCycle; cycles follow one another.
RunCycle ==
    /\ analysis.pc = "idle"
    /\ analysis.cycles < MaxCycles
    /\ analysis' = [NextSymbolOf([analysis EXCEPT !.cycles = analysis.cycles + 1])
                      EXCEPT !.last = [op |-> "runCycle"]]
    /\ UNCHANGED OtherThanAnalysis

\* getMarketData resolves: the indicators are computed and getRecommendation
\* is called.
MarketDataResolves ==
    /\ analysis.pc = "marketData"
    /\ analysis' = [GetRecommendation(analysis) EXCEPT !.last = [op |-> "getRecommendation"]]
    /\ UNCHANGED OtherThanAnalysis

\* getMarketData rejects, in a runCycle without the try block: the cycle ends.
MarketDataRejectsAborts ==
    /\ analysis.pc = "marketData"
    /\ analysis' = [analysis EXCEPT !.pc = "idle", !.idx = 0,
                                    !.last = [op |-> "marketDataRejects"]]
    /\ UNCHANGED OtherThanAnalysis

\* getMarketData rejects: the catch block logs and the loop goes on.
MarketDataRejects ==
    /\ analysis.pc = "marketData"
    /\ analysis' = [NextSymbolOf(analysis) EXCEPT !.last = [op |-> "marketDataRejects"]]
    /\ UNCHANGED OtherThanAnalysis

\* this.rateLimiter.acquire() resolves: generateContent is invoked.
AcquireResolves ==
    /\ analysis.pc = "acquire"
    /\ analysis' = [analysis EXCEPT !.pc = "call",
                                    !.modelCalls = analysis.modelCalls + 1,
                                    !.last = [op |-> "generateContent"]]
    /\ UNCHANGED OtherThanAnalysis

DoGenerateResolves ==
    /\ analysis.pc = "call"
    /\ \E text \in Responses :
         analysis' = [GenerateResolves(analysis, text) EXCEPT !.last = [op |-> "generateResolves"]]
    /\ UNCHANGED OtherThanAnalysis

DoGenerateRejects ==
    /\ analysis.pc = "call"
    /\ \E kind \in ErrorKinds :
         analysis' = [GenerateRejects(analysis, kind) EXCEPT !.last = [op |-> "generateRejects"]]
    /\ UNCHANGED OtherThanAnalysis

\* The delay of retryWithBackoff is over: generateContent is invoked again.
BackoffOver ==
    /\ analysis.pc = "backoff"
    /\ analysis' = [analysis EXCEPT !.pc = "call",
                                    !.modelCalls = analysis.modelCalls + 1,
                                    !.last = [op |-> "generateContent"]]
    /\ UNCHANGED OtherThanAnalysis

\* executeDecision returns and the decision is logged.
ExecuteReturns ==
    /\ analysis.pc = "execute"
    /\ analysis' = [LogDecision(analysis) EXCEPT !.last = [op |-> "decisionDb.create"]]
    /\ UNCHANGED OtherThanAnalysis

\* executeDecision throws: the catch block logs and the loop goes on.
ExecuteThrows ==
    /\ analysis.pc = "execute"
    /\ analysis' = [NextSymbolOf(analysis) EXCEPT !.last = [op |-> "executeThrows"]]
    /\ UNCHANGED OtherThanAnalysis

\* this.delay(5000) is over.
AnalysisDelayOver ==
    /\ analysis.pc = "delay"
    /\ analysis' = [NextSymbolOf(analysis) EXCEPT !.last = [op |-> "delayOver"]]
    /\ UNCHANGED OtherThanAnalysis

AnalysisTick ==
    /\ analysis.time < MaxAnalysisTime
    /\ analysis' = [analysis EXCEPT !.time = analysis.time + 1,
                                    !.last = [op |-> "tick"]]
    /\ UNCHANGED OtherThanAnalysis

AnalysisNext ==
    \/ RunCycle
    \/ MarketDataResolves
    \/ MarketDataRejects
    \/ AcquireResolves
    \/ DoGenerateResolves
    \/ DoGenerateRejects
    \/ BackoffOver
    \/ ExecuteReturns
    \/ ExecuteThrows
    \/ AnalysisDelayOver
    \/ AnalysisTick

AnalysisSpec == Init /\ [][AnalysisNext]_vars

----------------------------------------------------------------------------
(* Calls of Transaction.execute                                            *)

OtherThanTransaction == <<balance, positions, trades, botStatus, nextPositionId, now, isRunning, tasks, thrown, lastCall, call, limiter, resilience, analysis, http, marketData>>

\* transaction.execute(fn) on the one Transaction object
DoExecute ==
    /\ transaction.executes < MaxExecutes
    /\ \E fn \in {"returns", "throws"} :
         \E f \in [begin : BOOLEAN, commit : BOOLEAN, rollback : BOOLEAN] :
           transaction' = [Execute(transaction, fn, f)
                             EXCEPT !.executes = transaction.executes + 1,
                                    !.last = [op |-> "execute", fn |-> fn, f |-> f]]
    /\ UNCHANGED OtherThanTransaction

TransactionSpec == Init /\ [][DoExecute]_vars

----------------------------------------------------------------------------
(* Requests of one key through the HTTP rate limiter                       *)

OtherThanHttp == <<balance, positions, trades, botStatus, nextPositionId, now, isRunning, tasks, thrown, lastCall, call, limiter, resilience, analysis, transaction, marketData>>

\* A request arrives at the middleware: the history of the key is filtered
\* to the window, and the request is answered 429 or passed to next() with
\* res.send wrapped.
RateLimiterMiddleware ==
    /\ Len(http.admittedAt) + http.rejected < MaxArrivals
    /\ \E recentRequests \in {SelectSeq(http.requestStore,
                                         LAMBDA timestamp : http.time - timestamp < HttpWindowUnits)} :
         http' = IF Len(recentRequests) >= MaxRequests
                 THEN [http EXCEPT !.requestStore = recentRequests,
                                   !.rejected = http.rejected + 1,
                                   !.last = [op |-> "request", status |-> 429]]
                 ELSE [http EXCEPT !.requestStore = recentRequests,
                                   !.inFlight = Append(http.inFlight, http.time),
                                   !.admittedAt = Append(http.admittedAt, http.time),
                                   !.last = [op |-> "request", status |-> 200]]
    /\ UNCHANGED OtherThanHttp

\* The handler of an admitted request calls res.send: the wrapper pushes
\* the arrival time of the request to the history of the key.
ResSend ==
    /\ \E i \in DOMAIN http.inFlight :
         http' = [http EXCEPT !.requestStore = Append(http.requestStore, http.inFlight[i]),
                              !.inFlight = RemoveAt(http.inFlight, i),
                              !.last = [op |-> "send", status |-> 200]]
    /\ UNCHANGED OtherThanHttp

HttpTick ==
    /\ http.time < MaxHttpTime
    /\ http' = [http EXCEPT !.time = http.time + 1, !.last = [op |-> "tick", status |-> 0]]
    /\ UNCHANGED OtherThanHttp

HttpNext ==
    \/ RateLimiterMiddleware
    \/ ResSend
    \/ HttpTick

HttpSpec == Init /\ [][HttpNext]_vars

----------------------------------------------------------------------------
(* Claims about RiskManager                                                *)

\* C7: for every positive entry price and both market families,
\* calculateStopLevels returns stopLoss < entryPrice < takeProfit for a long
\* position and takeProfit < entryPrice < stopLoss for a short one.
C7_StopLevelsBracketEntry ==
    call.fn = "calculateStopLevels" =>
        IF call.side = "long"
        THEN call.result.stopLoss < call.entryPrice
             /\ call.entryPrice < call.result.takeProfit
        ELSE call.result.takeProfit < call.entryPrice
             /\ call.entryPrice < call.result.stopLoss

\* C9: shouldClosePosition closes a long position at its stop-loss when the
\* price is at or below the stop, at its take-profit when the price is at or
\* above the take, and not at all strictly between; for a short position the
\* comparisons are mirrored.  The two triggers never hold together.
C9_ShouldClosePosition ==
    call.fn = "shouldClosePosition" =>
        LET p == call.position
            c == call.currentPrice
            stopHit == IF p.side = "long" THEN c <= p.stop_loss ELSE c >= p.stop_loss
            takeHit == IF p.side = "long" THEN c >= p.take_profit ELSE c <= p.take_profit
        IN  /\ ~(stopHit /\ takeHit)
            /\ stopHit => /\ call.result.shouldClose
                          /\ call.result.reason = "STOP_LOSS_HIT"
                          /\ call.result.exitPrice = p.stop_loss
            /\ takeHit => /\ call.result.shouldClose
                          /\ call.result.reason = "TAKE_PROFIT_HIT"
                          /\ call.result.exitPrice = p.take_profit
            /\ (~stopHit /\ ~takeHit) => ~call.result.shouldClose

\* a short position closed when the price is exactly at its take-profit
C9_Witness ==
    /\ call.fn = "shouldClosePosition"
    /\ call.position.side = "short"
    /\ call.currentPrice = call.position.take_profit
    /\ call.result.reason = "TAKE_PROFIT_HIT"

\* C10: the checks of canOpenTrade always hold one entry each for
\* MAX_TRADES_PER_DAY, NO_DUPLICATE_POSITION and MINIMUM_BALANCE, each decided
\* by its own rule whatever the others gave, followed by LOSS_COOLDOWN only
\* when it failed; allowed is true exactly when every entry passed.
C10_ChecksNotShortCircuited ==
    call.fn = "canOpenTrade" =>
        LET checks == call.result.checks
        IN  /\ Len(checks) \in {3, 4}
            /\ checks[1].rule = "MAX_TRADES_PER_DAY"
            /\ checks[1].passed = (call.tradesToday < MaxTradesPerDay)
            /\ checks[2].rule = "NO_DUPLICATE_POSITION"
            /\ checks[2].passed = (call.existingPosition = {})
            /\ checks[3].rule = "MINIMUM_BALANCE"
            /\ checks[3].passed = (call.balance >= MinimumBalance)
            /\ Len(checks) = 4 => /\ checks[4].rule = "LOSS_COOLDOWN"
                                  /\ ~checks[4].passed
            /\ call.result.allowed = (\A i \in 1 .. Len(checks) : checks[i].passed)

\* every rule failed in one call, and all four entries are reported
C10_Witness ==
    /\ call.fn = "canOpenTrade"
    /\ Len(call.result.checks) = 4
    /\ \A i \in 1 .. 4 : ~call.result.checks[i].passed

\* C13: for every balance that is not negative, every positive entry price,
\* every stop price different from it and both market types, the result of
\* calculatePositionSize has positionValue = quantity x entryPrice, at most
\* 95% of the balance, and a quantity that is not negative.
C13_PositionSizeWithinCap ==
    (/\ call.fn = "calculatePositionSize"
     /\ call.balance >= 0
     /\ call.stopLossPrice # call.entryPrice)
    => /\ call.result.quantity >= 0
       /\ call.result.positionValue
            = PositionValue(call.result.quantity, call.entryPrice)
       /\ ~ProductGreater(call.result.quantity, call.entryPrice,
                          call.balance, PositionValueCapPercent * 1000)

\* C13 as stated, for every balance and every stop price
C13_AsStated ==
    call.fn = "calculatePositionSize"
    => /\ call.result.quantity >= 0
       /\ call.result.positionValue
            = PositionValue(call.result.quantity, call.entryPrice)
       /\ ~ProductGreater(call.result.quantity, call.entryPrice,
                          call.balance, PositionValueCapPercent * 1000)

\* the risk-based size of a forex position exceeded 95% of the balance and
\* was re-floored to 8636 units
C13_Witness ==
    /\ call.fn = "calculatePositionSize"
    /\ call.marketType = "forex"
    /\ call.balance = 1000000
    /\ call.entryPrice = 110000
    /\ call.result.quantity = 863600

\* the size openPosition computes for the arguments of the call
SizeOfCall ==
    CalculatePositionSize(
        call.db.balance, call.entryPrice,
        CalculateStopLevels(call.entryPrice, call.side, call.marketType).stopLoss,
        call.marketType)

\* C14: whenever the computed position size is <= 0, openPosition returns
\* success = false with the 'Position size too small or insufficient balance'
\* error, inserts no position and does not increment the trades-today counter.
C14_NonPositiveSizeRejected ==
    (call.fn = "openPosition" /\ SizeOfCall.quantity <= 0)
    => /\ ~call.result.success
       /\ ~call.result.threw
       /\ call.result.error = "Position size too small or insufficient balance"
       /\ call.result.db = call.db

\* the risk-based size was positive, but one unit costs more than 95% of the
\* balance: the re-floored size is 0 and the open is rejected
C14_Witness ==
    /\ call.fn = "openPosition"
    /\ call.symbol = "USD/JPY"
    /\ call.db.balance = 5000
    /\ call.side = "long"
    /\ SizeOfCall.quantity = 0
    /\ SizeOfCall.error = NONE
    /\ ~call.result.success

\* C15: openPosition answers a null entry price, a market type outside
\* {stock, forex} or a side outside {long, short} with a returned failure:
\* it does not throw and it stores nothing.
C15_InvalidInputReturnsFailure ==
    (/\ call.fn = "openPosition"
     /\ \/ call.entryPrice = NULL
        \/ call.marketType \notin MarketTypes
        \/ call.side \notin Sides)
    => /\ ~call.result.threw
       /\ ~call.result.success
       /\ call.result.db = call.db

\* sign of a number: -1, 0 or 1
Signum(x) == IF x < 0 THEN -1 ELSE IF x > 0 THEN 1 ELSE 0

\* C16: calculateProfitLoss returns (exit - entry) x quantity for a long
\* position and its exact negation for a short one, the percentage likewise
\* negated, both rounded to 2 decimals; profitLoss and profitLossPercent
\* never have opposite signs.
C16_ProfitLossBySide ==
    call.fn = "calculateProfitLoss" =>
        LET long == RoundMulDiv(call.exitPrice - call.entryPrice,
                                call.quantity, 100000)
            longPercent == RoundMulDiv(call.exitPrice - call.entryPrice,
                                       10000, call.entryPrice)
        IN  /\ call.side = "long" => /\ call.result.profitLoss = long
                                     /\ call.result.profitLossPercent = longPercent
            /\ call.side = "short" => /\ call.result.profitLoss = -long
                                      /\ call.result.profitLossPercent = -longPercent
            /\ Signum(call.result.profitLoss)
                  * Signum(call.result.profitLossPercent) >= 0

\* C16 as stated: profitLossPercent always has the sign of profitLoss
C16_SameSignAlways ==
    call.fn = "calculateProfitLoss" =>
        Signum(call.result.profitLossPercent) = Signum(call.result.profitLoss)

\* the short side of calculateProfitLoss(100, 110, 10, ...): -100.00 and -10%
C16_Witness ==
    /\ call.fn = "calculateProfitLoss"
    /\ call.side = "short"
    /\ call.entryPrice = 10000000
    /\ call.exitPrice = 11000000
    /\ call.quantity = 1000
    /\ call.result.profitLoss = -10000
    /\ call.result.profitLossPercent = -1000

----------------------------------------------------------------------------
(* Claims about RateLimiter                                                *)

\* the elements of a sequence
Range(s) == {s[i] : i \in DOMAIN s}

\* C18: acquire() calls are resolved in call order: no caller is resolved
\* while a caller that called acquire() before it is still waiting in the
\* queue.
C18_ResolvedInCallOrder ==
    \A waiting \in Range(limiter.queue), done \in Range(limiter.resolved) :
        done < waiting

\* the executions of processQueue that are inside its while loop
DrainLoops == Len(limiter.sleeping)

\* C19: at most one drain loop of processQueue is active per limiter, and
\* whenever the queue is not empty a drain loop is active.
C19_OneDrainLoop ==
    /\ DrainLoops <= 1
    /\ limiter.queue # <<>> => limiter.processing /\ DrainLoops = 1

\* two callers wait in the queue: the second one's processQueue call found
\* the first one's loop at work and returned
C19_Witness ==
    /\ Len(limiter.queue) >= 2
    /\ limiter.queuedRequests >= 2
    /\ limiter.processing
    /\ DrainLoops = 1

\* C20: the token count stays within 0..maxTokens, and the callers resolved
\* by a step are new ones, each paired with one decrement by one token of
\* the refilled count, which never goes below zero: a token is only taken
\* when at least one is there.
C20_TokensWithinBucket ==
    /\ limiter.tokens >= 0 /\ limiter.tokens <= FullBucket
    /\ [][LET taken == Len(limiter'.resolved) - Len(limiter.resolved)
          IN  /\ limiter'.tokens >= 0 /\ limiter'.tokens <= FullBucket
              /\ taken >= 0
              /\ SubSeq(limiter'.resolved, 1, Len(limiter.resolved)) = limiter.resolved
              /\ Cardinality(Range(limiter'.resolved)) = Len(limiter'.resolved)
              /\ taken > 0 =>
                   limiter'.tokens = RefillTokens(limiter).tokens - taken * OneToken]_vars

\* a fraction of a token is left after three callers were resolved, one of
\* them out of the queue by the drain loop
C20_Witness ==
    /\ Len(limiter.resolved) >= 3
    /\ limiter.queuedRequests >= 1
    /\ limiter.queue = <<>>
    /\ limiter.calls = Len(limiter.resolved)
    /\ limiter.tokens % OneToken # 0

\* C21: every caller that acquire() put into the queue is eventually
\* resolved, in any sequence of acquire(), getStatus() and reset() calls.
C21_EnqueuedEventuallyResolved ==
    \A caller \in 1..MaxCallers :
        (caller \in Range(limiter.queue)) ~> (caller \in Range(limiter.resolved))

\* the calls resolved in the window that begins with the i-th resolution
ResolvedInWindowFrom(i) ==
    {j \in DOMAIN limiter.resolvedAt :
        /\ limiter.resolvedAt[j] >= limiter.resolvedAt[i]
        /\ limiter.resolvedAt[j] < limiter.resolvedAt[i] + WindowUnits}

\* C22: within any time interval of length windowMs the limiter resolves at
\* most maxTokens acquire() calls.  Stated for a limiter on which reset()
\* was not called since its first acquire().
C22_AtMostMaxTokensPerWindow ==
    limiter.totalRequests = limiter.calls =>
        \A i \in DOMAIN limiter.resolvedAt :
            Cardinality(ResolvedInWindowFrom(i)) <= MaxTokens

----------------------------------------------------------------------------
(* Claims about CircuitBreaker, RetryPolicy and callWithResilience         *)

DirectBreaker == resilience.breakers[DirectService]

\* C23: once failureThreshold consecutive failures have opened the breaker,
\* canAttempt() returns false while resetTimeout has not elapsed; after
\* that it returns true once, moving to HALF_OPEN, and false to every
\* further call until the trial's success or failure has been recorded.
C23_OneTrialAfterTimeout ==
    [][resilience'.last.op = "canAttempt" =>
         /\ (DirectBreaker.state = "OPEN"
             /\ resilience.time < DirectBreaker.nextAttemptTime)
                => ~resilience'.last.result
         /\ (DirectBreaker.state = "OPEN"
             /\ resilience.time >= DirectBreaker.nextAttemptTime)
                => resilience'.last.result /\ DirectBreaker'.state = "HALF_OPEN"
         /\ DirectBreaker.state = "HALF_OPEN" => ~resilience'.last.result]_vars

\* C24: canAttempt, recordSuccess and recordFailure change the state only
\* CLOSED->OPEN when the failure count reaches failureThreshold,
\* OPEN->HALF_OPEN by canAttempt after resetTimeout, HALF_OPEN->CLOSED when
\* the successes reach the trial limit, HALF_OPEN->OPEN on any failure;
\* recordSuccess sets the failure count to zero and recordFailure adds one,
\* so that a closed breaker opens on failureThreshold consecutive failures.
C24_StateTransitions ==
    [][LET from == DirectBreaker.state
           to == DirectBreaker'.state
           op == resilience'.last.op
       IN  /\ from # to =>
                \/ /\ from = "CLOSED" /\ to = "OPEN" /\ op = "recordFailure"
                   /\ DirectBreaker'.failureCount >= FailureThreshold
                \/ /\ from = "OPEN" /\ to = "HALF_OPEN" /\ op = "canAttempt"
                   /\ resilience.time >= DirectBreaker.nextAttemptTime
                \/ /\ from = "HALF_OPEN" /\ to = "CLOSED" /\ op = "recordSuccess"
                   /\ DirectBreaker'.successCount >= HalfOpenRequests
                \/ from = "HALF_OPEN" /\ to = "OPEN" /\ op = "recordFailure"
           /\ op = "recordSuccess" => DirectBreaker'.failureCount = 0
           /\ op = "recordFailure" =>
                /\ DirectBreaker'.failureCount = DirectBreaker.failureCount + 1
                /\ from = "HALF_OPEN" => to = "OPEN"
                /\ from = "CLOSED" =>
                     (to = "OPEN" <=> DirectBreaker.failureCount + 1 >= FailureThreshold)]_vars

\* a breaker that opened after the clock had advanced is closed again by
\* the success of its trial
C24_Witness ==
    /\ DirectBreaker.state = "CLOSED"
    /\ DirectBreaker.successCount = HalfOpenRequests
    /\ DirectBreaker.nextAttemptTime # NULL
    /\ DirectBreaker.nextAttemptTime > ResetTimeoutUnits
    /\ resilience.last.op = "recordSuccess"

\* C25: while the breaker of a service is OPEN and its resetTimeout has not
\* elapsed, callWithResilience for that service throws the error of code
\* CIRCUIT_BREAKER_OPEN, invokes the operation not once and records neither
\* a success nor a failure; no breaker, of this or another service,
\* changes.
C25_FailsFastWhileOpen ==
    [][\A c \in Callers, s \in Services :
         (/\ resilience'.last.op = "callWithResilience"
          /\ resilience'.last.caller = c
          /\ resilience'.last.service = s
          /\ resilience'.calls = resilience.calls + 1
          /\ resilience.breakers[s].state = "OPEN"
          /\ resilience.time < resilience.breakers[s].nextAttemptTime)
         => /\ resilience'.tasks[c].outcome = "threw"
            /\ resilience'.tasks[c].value = CIRCUIT_BREAKER_OPEN
            /\ resilience'.tasks[c].invocations = 0
            /\ resilience'.tasks[c].pc = "done"
            /\ resilience'.breakers = resilience.breakers]_vars

\* a call to a service whose breaker is open, before the reset timeout, has
\* just failed fast: the operation was not invoked and the breaker of the
\* other service is as it was created
C25_Witness ==
    /\ resilience.last.op = "callWithResilience"
    /\ ~resilience.last.allowed
    /\ resilience.tasks[resilience.last.caller].value = CIRCUIT_BREAKER_OPEN
    /\ resilience.tasks[resilience.last.caller].invocations = 0
    /\ resilience.breakers[resilience.last.service].state = "OPEN"
    /\ resilience.time < resilience.breakers[resilience.last.service].nextAttemptTime
    /\ \E s \in Services \ {resilience.last.service} :
         resilience.breakers[s] = NewCircuitBreaker

\* C26: RetryPolicy.execute invokes the wrapped operation at most maxRetries
\* times in total: no call has made more than MaxRetries invocations, and a
\* call whose every attempt failed has made at most MaxRetries of them.
C26_AtMostMaxRetriesInvocations ==
    \A c \in Callers : resilience.tasks[c].invocations <= MaxRetries

\* the call of caller c went through RetryPolicy.execute and is over
Executed(c) ==
    /\ resilience.tasks[c].pc = "done"
    /\ resilience.tasks[c].invocations > 0

\* C27: RetryPolicy.execute always terminates. It returns the result of the
\* first attempt that succeeds (every earlier invocation failed, so the
\* value is that of the latest invocation) and makes no attempt after it;
\* when all attempts fail it throws the error of the last attempt; it has
\* slept once between two attempts and not after the last one.
C27_ExecuteTerminates ==
    /\ [](\A c \in Callers :
            Executed(c) =>
              /\ resilience.tasks[c].value = resilience.tasks[c].invocations
              /\ resilience.tasks[c].sleeps = resilience.tasks[c].invocations - 1
              /\ resilience.tasks[c].outcome = "threw" =>
                   /\ resilience.tasks[c].lastError = resilience.tasks[c].invocations
                   /\ resilience.tasks[c].attempt = MaxRetries)
    /\ [][\A c \in Callers :
            (Executed(c) /\ resilience'.tasks[c] # resilience.tasks[c])
              => /\ resilience'.last.op = "callWithResilience"
                 /\ resilience'.last.caller = c
                 /\ resilience'.calls = resilience.calls + 1]_vars
    /\ [][\A c \in Callers :
            resilience'.tasks[c].invocations > resilience.tasks[c].invocations
              => \/ resilience.tasks[c].pc = "sleep"
                 \/ /\ resilience.tasks[c].pc \in {"idle", "done"}
                    /\ resilience'.calls = resilience.calls + 1
                    /\ resilience'.tasks[c].invocations = 1]_vars
    /\ \A c \in Callers :
         (resilience.tasks[c].pc \in {"fn", "sleep"})
            ~> (resilience.tasks[c].pc = "done")

\* one call has returned the result of its second attempt after one sleep
\* and another has thrown the error of its last attempt
C27_Witness ==
    \E c, d \in Callers :
       /\ Executed(c)
       /\ resilience.tasks[c].outcome = "returned"
       /\ resilience.tasks[c].value = 2
       /\ resilience.tasks[c].sleeps = 1
       /\ Executed(d)
       /\ resilience.tasks[d].outcome = "threw"
       /\ resilience.tasks[d].value = MaxRetries + 1
       /\ resilience.tasks[d].sleeps = MaxRetries

----------------------------------------------------------------------------
(* Claims about GeminiService and the decision log                         *)

\* getRecommendation is between its call and its return
InRequest(a) == a.pc \in {"acquire", "call", "backoff"}

\* C28: getRecommendation never propagates a failure of the AI provider.
\* Whatever the outcomes of the primary and the fallback model calls, the
\* request ends by returning a decision whose recommendation is BUY, SELL
\* or HOLD; when it ends otherwise than by a model call that succeeded
\* (both models failed, or the quota pause) the decision is HOLD with a
\* non-empty reasoning.
C28_AlwaysADecision ==
    [][((InRequest(analysis) \/ analysis'.last.op = "getRecommendation")
          /\ ~InRequest(analysis'))
         => /\ analysis'.pc = "execute"
            /\ analysis'.aiDecision.recommendation \in {"BUY", "SELL", "HOLD"}
            /\ analysis'.last.op # "generateResolves"
                 => /\ analysis'.aiDecision.recommendation = "HOLD"
                    /\ Len(analysis'.aiDecision.reasoning) > 0]_vars

\* the primary model failed on its quota, the fallback was overloaded at
\* every attempt, and the request has returned the default decision
C28_Witness ==
    /\ analysis.last.op = "generateRejects"
    /\ analysis.pc = "execute"
    /\ analysis.stage = "gemini-fallback"
    /\ analysis.retries = BackoffMaxRetries
    /\ analysis.isGeminiQuotaExceeded
    /\ analysis.quotaExceededTime = analysis.time
    /\ analysis.aiDecision = BothFailedDecision

\* a model call has failed on the quota and the cooldown has not elapsed
InQuotaCooldown(a) ==
    /\ a.isGeminiQuotaExceeded
    /\ a.time - a.quotaExceededTime < QuotaCooldownUnits

\* C29: a quota failure is not retried. Once a model call has failed with a
\* quota error no model call is made, in the same request or in a later
\* one, until the cooldown has elapsed; a request made in the meantime
\* returns HOLD without a model call; the first request after the cooldown
\* attempts the model again.
C29_NoModelCallDuringCooldown ==
    [][/\ (analysis'.last.op = "generateContent"
             /\ analysis'.modelCalls = analysis.modelCalls + 1)
            => ~InQuotaCooldown(analysis)
       /\ (analysis'.last.op = "getRecommendation" /\ analysis.pc = "marketData")
            => IF InQuotaCooldown(analysis)
               THEN /\ analysis'.pc = "execute"
                    /\ analysis'.aiDecision.recommendation = "HOLD"
                    /\ analysis'.modelCalls = 0
               ELSE analysis'.pc = "acquire"]_vars

\* the rows of table decisions that cycle k logged for a symbol
DecisionsOf(k, symbol) ==
    {i \in DOMAIN analysis.decisions :
        /\ analysis.decisions[i].cycle = k
        /\ analysis.decisions[i].symbol = symbol}

\* C30: for every symbol of a decision cycle a decision is reported. When
\* runCycle has ended, each cycle has logged one decision for each
\* configured symbol, whether or not the market data or the AI call of the
\* symbol failed, and each logged decision is BUY, SELL or HOLD with a
\* non-empty reasoning.
C30_OneDecisionPerSymbol ==
    analysis.pc = "idle"
      => /\ \A k \in 1..analysis.cycles : \A symbol \in SymbolSet :
              Cardinality(DecisionsOf(k, symbol)) = 1
         /\ \A i \in DOMAIN analysis.decisions :
              /\ analysis.decisions[i].recommendation \in {"BUY", "SELL", "HOLD"}
              /\ Len(analysis.decisions[i].reasoning) > 0

----------------------------------------------------------------------------
(* Claims about the decision cycle                                         *)

\* C31: an error raised while processing one symbol never aborts the cycle.
\* A cycle in progress goes through the configured symbols in their order:
\* each step of it either stays at its symbol, or moves to the next symbol
\* of the list, or ends the cycle after the last one; a step in which the
\* symbol's processing failed (the market data was rejected, executeDecision
\* threw, or the INSERT of the decision threw) is one of the latter two.
C31_ErrorsDoNotAbortTheCycle ==
    [][(analysis.pc # "idle" /\ analysis'.last.op # "tick")
         => \/ /\ analysis'.idx = analysis.idx
               /\ analysis'.pc \notin {"idle", "marketData"}
               /\ analysis'.last.op \notin {"marketDataRejects", "executeThrows"}
               /\ analysis'.last.op = "decisionDb.create"
                    => ~DecisionConstraintFails(analysis.aiDecision)
            \/ /\ analysis.idx < Len(Symbols)
               /\ analysis'.idx = analysis.idx + 1
               /\ analysis'.pc = "marketData"
            \/ /\ analysis.idx = Len(Symbols)
               /\ analysis'.pc = "idle"]_vars

\* the market data of the first symbol was rejected, executeDecision has
\* just thrown for the second symbol, and the cycle has ended
C31_Witness ==
    /\ analysis.last.op = "executeThrows"
    /\ analysis.pc = "idle"
    /\ analysis.cycles = 1
    /\ analysis.decisions = <<>>

\* C32: within one cycle the inter-symbol delay elapses between the end of
\* one symbol's processing and the first external call (getMarketData) for
\* the next symbol, on every path: the loop moves from a symbol to the next
\* one only by the step that ends the delay.
C32_DelayBetweenSymbols ==
    [][(analysis.idx >= 1 /\ analysis'.idx = analysis.idx + 1)
         => /\ analysis.pc = "delay"
            /\ analysis'.last.op = "delayOver"]_vars

\* C33: when cycles are started only by start() and the cron job, cycle N
\* has finished before cycle N+1 begins: at most one runCycle execution is
\* in progress.
C33_OneCycleAtATime ==
    Cardinality({t \in Tasks : tasks[t].pc # "idle"}) <= 1

----------------------------------------------------------------------------
(* Claims about Transaction                                                *)

\* C34: execute(fn), called with no transaction in progress and with a
\* ROLLBACK statement that does not fail, runs BEGIN, fn, COMMIT in that
\* order and returns when fn returns; runs ROLLBACK and rethrows the error
\* of fn when fn throws; reports a failure of BEGIN or of COMMIT with that
\* statement's own error; and leaves inTransaction false in every case.
C34_ExecuteCommitsOrRollsBack ==
    [][(/\ transaction'.executes = transaction.executes + 1
        /\ ~transaction.inTransaction
        /\ ~transaction.active
        /\ ~transaction'.last.f.rollback)
         => /\ ~transaction'.inTransaction
            /\ IF transaction'.last.f.begin
               THEN /\ transaction'.outcome = "threw"
                    /\ transaction'.error = "BEGIN failed"
               ELSE IF transaction'.last.fn = "throws"
               THEN /\ transaction'.outcome = "threw"
                    /\ transaction'.error = "fn error"
                    /\ transaction'.steps = <<"BEGIN", "fn", "ROLLBACK">>
               ELSE IF transaction'.last.f.commit
               THEN /\ transaction'.outcome = "threw"
                    /\ transaction'.error = "COMMIT failed"
               ELSE /\ transaction'.outcome = "returned"
                    /\ transaction'.steps = <<"BEGIN", "fn", "COMMIT">>]_vars

----------------------------------------------------------------------------
(* Claims about the HTTP rate limiter                                      *)

\* the admitted requests that arrived within windowMs from the arrival of
\* the i-th admitted request
AdmittedInWindowFrom(i) ==
    {j \in DOMAIN http.admittedAt :
        /\ http.admittedAt[i] <= http.admittedAt[j]
        /\ http.admittedAt[j] < http.admittedAt[i] + HttpWindowUnits}

\* C35: for one key the middleware admits (calls next() for) at most
\* maxRequests requests within any interval of windowMs, also when requests
\* arrive while earlier admitted requests have not sent their response.
C35_AtMostMaxRequestsPerWindow ==
    \A i \in DOMAIN http.admittedAt : Cardinality(AdmittedInWindowFrom(i)) <= MaxRequests

----------------------------------------------------------------------------
(* Claims about the balance                                                *)

RECURSIVE SumProfitLoss(_)
SumProfitLoss(rows) ==
    IF rows = <<>> THEN 0 ELSE Head(rows).profit_loss + SumProfitLoss(Tail(rows))

\* C36: from a reset account with no trades and without a later
\* resetAccount, balance = initial balance + the sum of profit_loss over the
\* recorded trades: the difference between the balance and that sum is the
\* initial balance at the start and no call other than resetAccount
\* changes it.
C36_BalanceIsInitialPlusProfitLoss ==
    /\ (trades = <<>> /\ lastCall.op = "none") => balance = InitialBalance
    /\ [][lastCall'.op # "resetAccount"
            => balance' - SumProfitLoss(trades') = balance - SumProfitLoss(trades)]_vars

----------------------------------------------------------------------------
(* Claims about the risk budget                                            *)

\* C37: for every result of calculatePositionSize with quantity > 0 the
\* loss taken if the stop is hit, quantity x |entryPrice - stopLossPrice|,
\* does not exceed the risk budget balance x maxRiskPerTrade, for either
\* market type.
C37_LossWithinRiskBudget ==
    (/\ call.fn = "calculatePositionSize"
     /\ call.result.quantity > 0)
    => ~ProductGreater(call.result.quantity, Abs(call.entryPrice - call.stopLossPrice),
                       call.balance, MaxRiskPerTradeBps * 10)

----------------------------------------------------------------------------
(* Claims about calls in flight on one breaker                             *)

\* C38: with several callWithResilience calls in flight on one service, the
\* breaker leaves HALF_OPEN for CLOSED only on the success of a call that
\* canAttempt() admitted while the breaker was HALF_OPEN.
C38_OnlyTheTrialClosesTheBreaker ==
    [][\A s \in Services :
         (resilience.breakers[s].state = "HALF_OPEN"
            /\ resilience'.breakers[s].state = "CLOSED")
           => /\ resilience'.last.op = "fnResolves"
              /\ resilience'.last.service = s
              /\ resilience.tasks[resilience'.last.caller].admittedIn = "HALF_OPEN"]_vars

\* the breaker of the registry whose methods are called directly
RegisteredBreaker == resilience.breakers[DirectService]

\* C39: in every reachable state of a CircuitBreaker, under any sequence of
\* canAttempt, recordSuccess, recordFailure and resetBreaker: state = OPEN
\* implies nextAttemptTime is set, and state = CLOSED implies
\* failureCount < failureThreshold.
C39_BreakerInvariants ==
    /\ RegisteredBreaker.state = "OPEN" => RegisteredBreaker.nextAttemptTime # NULL
    /\ RegisteredBreaker.state = "CLOSED" => RegisteredBreaker.failureCount < FailureThreshold

\* resetBreaker has just closed a breaker that failures had opened
C39_Witness ==
    /\ resilience.last.op = "resetBreaker"
    /\ RegisteredBreaker.state = "CLOSED"
    /\ RegisteredBreaker.failureCount = 0
    /\ RegisteredBreaker.nextAttemptTime # NULL
    /\ RegisteredBreaker.lastFailureTime = resilience.time

\* the fetches that have not settled
FetchesInFlight ==
    {f \in DOMAIN marketData.fetches : marketData.fetches[f].pc \in {"acquire", "axios"}}

\* one fetch at most is in flight and a fetch takes one token; the callers
\* waiting together wait for one fetch, and a caller has received what its
\* fetch settled with; a pending entry of a settled fetch is about to be
\* removed by the caller that began the fetch
OneFetchPerKey ==
    /\ Cardinality(FetchesInFlight) <= 1
    /\ \A f \in DOMAIN marketData.fetches :
         marketData.fetches[f].tokens = IF marketData.fetches[f].pc = "acquire" THEN 0 ELSE 1
    /\ \A c, d \in 1..MaxRequesters :
         /\ marketData.callers[c].pc \in {"awaitOwn", "awaitPending"}
         /\ marketData.callers[d].pc \in {"awaitOwn", "awaitPending"}
         /\ marketData.callers[c].fetch \in FetchesInFlight
         /\ marketData.callers[d].fetch \in FetchesInFlight
         => marketData.callers[c].fetch = marketData.callers[d].fetch
    /\ \A c \in 1..MaxRequesters :
         marketData.callers[c].pc = "done" /\ marketData.callers[c].fetch # 0
         => /\ marketData.callers[c].from = marketData.callers[c].fetch
            /\ marketData.callers[c].received =
                 IF marketData.fetches[marketData.callers[c].fetch].pc = "resolved"
                 THEN "data" ELSE "error"
    /\ \A f \in DOMAIN marketData.fetches :
         marketData.pendingRequests = <<f>> /\ f \notin FetchesInFlight
         => \E c \in 1..MaxRequesters :
              marketData.callers[c].pc = "awaitOwn" /\ marketData.callers[c].fetch = f

\* a call served from the cache begins no fetch and takes no token
CacheHitTakesNoToken ==
    marketData'.last = [op |-> "getStockQuote", caller |-> marketData'.last.caller,
                        served |-> "cache"]
    /\ marketData'.callers # marketData.callers
    => /\ marketData'.fetches = marketData.fetches
       /\ marketData'.acquired = marketData.acquired

\* C40: for concurrent getStockQuote requests of one symbol, at most one
\* upstream fetch is in flight at any time and it acquires exactly one
\* rate-limiter token; every concurrent caller receives that fetch's result
\* or its error, the pending entry is removed when the fetch settles, and a
\* request served from a fresh cache entry acquires no token.
C40_OneFetchInFlightPerKey == [](OneFetchPerKey) /\ [][CacheHitTakesNoToken]_vars

====
